---- MODULE Spec2Model ----
(***************************************************************************)
(* The catalog of semantic view definitions: the in-memory map guarded by  *)
(* an RwLock (src/src/catalog.rs), the scalar functions that define and    *)
(* drop views through the background writer (src/src/ddl/define.rs,        *)
(* src/src/ddl/drop.rs), the sidecar file written with plain filesystem    *)
(* calls, and init_catalog, which loads the map when the extension loads.  *)
(*                                                                         *)
(* A store is opened in one of three ways, fixed for a behaviour:          *)
(*   db_path = ":memory:", writer = "None"   in-memory database            *)
(*   db_path = "file",     writer = "Some"   define.rs/drop.rs persist     *)
(*                                           through the writer thread     *)
(*   db_path = "file",     writer = "None"   catalog_insert/catalog_delete *)
(*                                           followed by write_sidecar     *)
(***************************************************************************)
EXTENDS Integers, Sequences, FiniteSets, TLC

\* ------------------------------------------------------------------ bounds
NameCount == 2
JsonCount == 2
MaxOps == 3
MaxRestarts == 2

Threads == {1, 2}
Names == 1..NameCount
\* Definition texts that SemanticViewDefinition::from_json accepts.
Jsons == 1..JsonCount
\* A text from_json rejects (malformed JSON, a missing or an unknown field).
BadJson == 0
Texts == Jsons \cup {BadJson}

VARIABLES
    db_path,     \* ":memory:" or "file"
    active,      \* the threads on which the host calls the functions
    writer,      \* DefineState.writer / DropState.writer: "None" or "Some"
    running,     \* the process that loaded the extension is alive
    map,         \* CatalogState: HashMap<String, String>, name -> JSON text
    table,       \* rows of semantic_layer._definitions, name -> definition
    sidecar,     \* bytes of the file at sidecar_path(db_path), or NoFile
    tmp,         \* bytes of the file at path.with_extension("tmp"), or NoFile
    fd,          \* per thread: where the inode opened by fs::write now lives
    guard,       \* per thread: the RwLock guard it holds between steps
    chan,        \* messages queued for the writer thread, oldest first
    reply,       \* per thread: what the writer sent on the reply channel
    writerAlive, \* the writer thread has not exited
    pc,          \* per thread: position in the operation it runs
    call,        \* per thread: the operation and its arguments
    res,         \* per thread: what its last operation returned
    pre,         \* history: name was a key of map when the call began
    persisted,   \* history: the durability layer reported success to the call
    anyFail,     \* history: a durable write failed since the catalog was loaded
    resynced,    \* history: the last init_catalog cleared or changed a row
    ops,         \* history: operations begun
    restarts,    \* history: crashes
    schema,      \* semantic_layer._definitions exists in the database
    loadErr,     \* the last extension load failed in init_catalog
    inits,       \* history: runs of init_catalog since the last call began
    tracing,     \* the behaviour records the history of the writer's channel
    sent,        \* history: messages enqueued since the load, oldest first
    acked,       \* history: positions in sent the writer replied Ok to
    base,        \* history: rows of the table when the catalog was loaded
    listBind,    \* the list_semantic_views scan in progress: what bind returned
    listSnap,    \* history: the map when that scan was bound
    listDone,    \* ListInitData.done of that scan
    listOut,     \* history: rows the func calls of that scan have emitted
    view_name,   \* expand: the view name, used in its error values
    def,         \* expand: the definition, << >> before any is given
    req,         \* expand: the request, << >> before any is given
    result,      \* expand: << >>, or <<r>> once it returned r
    wanted,      \* suggest_closest: the name looked for
    candidates,  \* suggest_closest: the available names
    suggested,   \* suggest_closest: << >>, or <<r>> once it returned r
    identifier,  \* quote_ident: the identifier
    quoted,      \* quote_ident: << >>, or <<r>> once it returned r
    json_name,   \* from_json: the view name
    json_text,   \* from_json: the text
    parsed,      \* from_json: << >>, or <<r>> once it returned r
    store_path,  \* sidecar_path: the database path, << >> before any is given
    sidecar_file, \* sidecar_path: << >>, or <<r>> once it returned r
    tmp_file,    \* write_sidecar: << >>, or <<r>> once tmp was computed
    input,       \* invoke on a chunk: its rows, << >> when none is running
    invoked,     \* invoke on a chunk: "define" or "drop"
    row,         \* invoke on a chunk: the row the loop is at
    outcome,     \* invoke on a chunk: "none", or what invoke returned
    map_before,  \* history: the map when that invoke began
    table_before, \* history: the table when that invoke began
    declared_joins, \* resolve_joins: joins, << >> before any is given
    needed_direct, \* history: needed when the fixed-point loop was entered
    needed_now,  \* resolve_joins: needed
    pass_count,  \* history: passes of the fixed-point loop made so far
    loop_done,   \* resolve_joins: the loop has been left
    described,   \* describe bind: << >>, or <<r>> once it returned r
    total_lines, \* explain scan: bind_data.lines.len()
    done,        \* explain scan: ExplainInitData.done
    row_index,   \* explain scan: ExplainInitData.row_index
    func_pc,     \* explain scan, per thread: position in its call of func
    start,       \* explain scan, per thread: the local start of that call
    emitted,     \* history: the chunks the func calls have put out, in order
    calls        \* history: func calls begun

writerLog == <<tracing, sent, acked, base>>
loadVars == <<schema, loadErr, inits>>
readVars == <<listBind, listSnap, listDone, listOut>>
expandVars == <<view_name, def, req, result>>
suggestVars == <<wanted, candidates, suggested>>
quoteVars == <<identifier, quoted>>
parseVars == <<json_name, json_text, parsed>>
pathVars == <<store_path, sidecar_file, tmp_file>>
chunkVars == <<input, invoked, row, outcome, map_before, table_before>>
joinVars == <<declared_joins, needed_direct, needed_now, pass_count, loop_done>>
explainVars == <<total_lines, done, row_index, func_pc, start, emitted, calls>>
auxVars == <<joinVars, described, explainVars>>
otherVars == <<pathVars, chunkVars, auxVars>>
pureVars == <<suggestVars, quoteVars, parseVars, otherVars>>

vars == <<db_path, writer, running, map, table, sidecar, tmp, fd, guard, chan,
          reply, writerAlive, pc, call, res, pre, persisted, active,
          anyFail, resynced, ops, restarts, writerLog, loadVars, readVars,
          expandVars, pureVars>>

\* The store, its callers and the scans of its table functions.
catalogVars == <<db_path, writer, running, map, table, sidecar, tmp, fd,
                 guard, chan, reply, writerAlive, pc, call, res, pre,
                 persisted, active, anyFail, resynced, ops, restarts,
                 writerLog, loadVars, readVars>>

\* ------------------------------------------------------- HashMap operations
EmptyMap == [x \in {} |-> 0]

\* The existence check finds nothing.
contains_key_never(m, n) == FALSE

contains_key(m, n) == n \in DOMAIN m

\* HashMap::insert replaces the value of a key that is present.
insert(m, n, j) == [x \in DOMAIN m \cup {n} |-> IF x = n THEN j ELSE m[x]]

\* The entry is left in the map.
remove_nothing(m, n) == m

remove(m, n) == [x \in DOMAIN m \ {n} |-> m[x]]

\* Every text is accepted.
from_json_any(j) == TRUE

\* SemanticViewDefinition::from_json succeeds.
from_json_ok(j) == j \in Jsons

\* ------------------------------------------------------ sidecar file bytes
\* A file is a sequence of tokens; NoFile is the absence of the file.
OpenTok == <<"{", 0, 0>>
CloseTok == <<"}", 0, 0>>
EntryTok(n, j) == <<"e", n, j>>
NoFile == << <<"nofile", 0, 0>> >>
EmptyFile == << >>

RECURSIVE Entries(_, _)
Entries(m, i) ==
    IF i > NameCount THEN << >>
    ELSE (IF i \in DOMAIN m THEN << EntryTok(i, m[i]) >> ELSE << >>)
         \o Entries(m, i + 1)

\* serde_json::to_string of the map: an object with one member per entry.
to_string(m) == << OpenTok >> \o Entries(m, 1) \o << CloseTok >>

WellFormed(c) ==
    /\ c # NoFile
    /\ Len(c) >= 2
    /\ c[1] = OpenTok
    /\ c[Len(c)] = CloseTok
    /\ \A i \in 2..(Len(c) - 1) : c[i][1] = "e"

\* serde_json::from_str::<HashMap<String, String>>(..).unwrap_or_default():
\* the members of a complete object (the last one wins for a repeated key),
\* the empty map for anything else.
from_str(c) ==
    IF WellFormed(c)
    THEN LET idx == 2..(Len(c) - 1)
             keys == {c[i][2] : i \in idx}
             last(k) == CHOOSE i \in idx :
                           /\ c[i][2] = k
                           /\ \A i2 \in idx : c[i2][2] = k => i2 <= i
         IN [k \in keys |-> c[last(k)][3]]
    ELSE EmptyMap

\* The file is looked for where it is not: every read finds no file.
read_sidecar_missing(c) == EmptyMap

read_sidecar(c) == IF c = NoFile THEN EmptyMap ELSE from_str(c)

\* Bytes of a file after `new` is written at offset 0 over `old`.
Overlay(old, new) ==
    IF Len(new) >= Len(old) THEN new
    ELSE new \o SubSeq(old, Len(new) + 1, Len(old))

\* ------------------------------------------------------------ init_catalog
\* CREATE SCHEMA IF NOT EXISTS ..; CREATE TABLE IF NOT EXISTS ..: no error
\* when they exist, and they exist afterwards.
create_if_not_exists(exists) == [err |-> FALSE, exists |-> TRUE]

\* The rows of the table are kept, the entries of the map written over them.
sync_table_keep_rows(tbl, m) ==
    [err |-> FALSE,
     rows |-> [x \in DOMAIN tbl \cup DOMAIN m |->
                   IF x \in DOMAIN m THEN m[x] ELSE tbl[x]]]

\* One INSERT per entry of the map without the DELETE before them: the
\* INSERT of a name that has a row violates the primary key.
sync_table_no_delete(tbl, m) ==
    [err |-> DOMAIN tbl \cap DOMAIN m # {},
     rows |-> IF DOMAIN tbl \cap DOMAIN m # {}
              THEN tbl
              ELSE [x \in DOMAIN tbl \cup DOMAIN m |->
                        IF x \in DOMAIN m THEN m[x] ELSE tbl[x]]]

\* DELETE FROM _definitions, then one INSERT per entry of the map; an INSERT
\* of a name that has a row violates the primary key.
sync_table_from_map(tbl, m) ==
    LET cleared == [x \in {} |-> 0]
    IN [err |-> DOMAIN cleared \cap DOMAIN m # {},
        rows |-> [x \in DOMAIN cleared \cup DOMAIN m |->
                      IF x \in DOMAIN m THEN m[x] ELSE cleared[x]]]

\* What init_catalog returns (an error, or the map) and what it leaves in
\* the database: sch tells whether the table exists, tbl holds its rows.
init_catalog(sch, tbl, side, path) ==
    LET c == create_if_not_exists(sch)
        rows == IF sch THEN tbl ELSE EmptyMap
        s == read_sidecar(side)
        y == sync_table_from_map(rows, s)
    IN IF c.err
       THEN [err |-> TRUE, schema |-> sch, map |-> EmptyMap, table |-> tbl]
       ELSE IF path # ":memory:" /\ s # EmptyMap
       THEN [err |-> y.err, schema |-> c.exists, map |-> s, table |-> y.rows]
       ELSE [err |-> FALSE, schema |-> c.exists, map |-> rows, table |-> rows]

\* ------------------------------------------------------------------- locks
\* write_sidecar holds the read guard from state.read() to its return; every
\* other guard is taken and dropped within one step.
ReadLockHeld(t) == guard[t] = "read"

\* state.write() is granted when no read guard is held.
CanWrite == \A u \in Threads : ~ReadLockHeld(u)

NoCall == [op |-> "none", name |-> 0, json |-> 0]

\* What is kept of a call once it has returned: the operation.
Done(op) == [op |-> op, name |-> 0, json |-> 0]

Idle(t) == pc[t] = "idle"

\* ------------------------------------------------------------------- Init
\* The state once extension_entrypoint has returned on a store opened as d
\* whose table held `rows` (no sidecar): the map holds those rows.  With
\* `trace` the behaviour records what is sent to the writer and what it
\* acknowledges.
Loaded(d, rows, trace) ==
    /\ tracing = trace
    /\ db_path = d[1]
    /\ writer = d[2]
    /\ writerAlive = (d[2] = "Some")
    /\ running = TRUE
    /\ map = rows
    /\ table = rows
    /\ base = (IF trace THEN rows ELSE EmptyMap)
    /\ schema = TRUE
    /\ loadErr = FALSE
    /\ inits = 1
    /\ sent = << >>
    /\ acked = {}
    /\ sidecar = NoFile
    /\ tmp = NoFile
    /\ fd = [t \in Threads |-> "none"]
    /\ guard = [t \in Threads |-> "none"]
    /\ chan = << >>
    /\ reply = [t \in Threads |-> "none"]
    /\ pc = [t \in Threads |-> "idle"]
    /\ call = [t \in Threads |-> NoCall]
    /\ res = [t \in Threads |-> "none"]
    /\ pre = [t \in Threads |-> FALSE]
    /\ persisted = [t \in Threads |-> FALSE]
    /\ anyFail = FALSE
    /\ resynced = FALSE
    /\ ops = 0
    /\ restarts = 0

\* expand has not been called.
NoExpand ==
    /\ view_name = << >>
    /\ def = << >>
    /\ req = << >>
    /\ result = << >>

\* sidecar_path has not been called on its own.
NoPath ==
    /\ store_path = << >>
    /\ sidecar_file = << >>
    /\ tmp_file = << >>

\* No invoke on a chunk of several rows has been made.
NoChunk ==
    /\ input = << >>
    /\ invoked = "none"
    /\ row = 0
    /\ outcome = "none"
    /\ map_before = EmptyMap
    /\ table_before = EmptyMap

\* The loop of resolve_joins is not being followed pass by pass.
NoJoinLoop ==
    /\ declared_joins = << >>
    /\ needed_direct = {}
    /\ needed_now = {}
    /\ pass_count = 0
    /\ loop_done = FALSE

\* No explain_semantic_view scan is bound.
NoExplain ==
    /\ total_lines = 0
    /\ done = FALSE
    /\ row_index = 0
    /\ func_pc = [t \in Threads |-> "none"]
    /\ start = [t \in Threads |-> 0]
    /\ emitted = << >>
    /\ calls = 0

NoAux == NoJoinLoop /\ described = << >> /\ NoExplain

NoOther == NoPath /\ NoChunk /\ NoAux

\* suggest_closest, quote_ident and from_json have not been called on their own.
NoPure ==
    /\ NoOther
    /\ wanted = << >>
    /\ candidates = << >>
    /\ suggested = << >>
    /\ identifier = << >>
    /\ quoted = << >>
    /\ json_name = << >>
    /\ json_text = << >>
    /\ parsed = << >>

\* No list_semantic_views scan is in progress.
NoScan == [bound |-> FALSE, err |-> FALSE, rows |-> << >>]

NoReads ==
    /\ listBind = NoScan
    /\ listSnap = EmptyMap
    /\ listDone = FALSE
    /\ listOut = << >>

\* A store is created by the first load of the extension.
InitStore ==
    /\ \E d \in {<<":memory:", "None">>, <<"file", "Some">>, <<"file", "None">>} :
          Loaded(d, EmptyMap, FALSE)
    /\ NoReads
    /\ NoExpand
    /\ NoPure

\* The host calls the functions from several threads.
Init == InitStore /\ active = Threads

\* The host calls the functions one at a time: a sequence of calls.
InitSeq == InitStore /\ active = {1}

\* ------------------------------------------------------- catalog reads
\* serde_json::from_str::<serde_json::Value> succeeds: the text is JSON.  A
\* text that from_json rejects may be no JSON at all.
is_json(j) == j \in Jsons

\* v["base_table"].as_str() of a definition text: several texts may name the
\* same table; the default (the empty string, 0) for a text that is no JSON.
json_base_table(j) == IF is_json(j) THEN (j % 2) + 1 ELSE 0

\* The orders in which HashMap::iter may visit the entries of m.
IterOrders(m) ==
    {o \in [1..Cardinality(DOMAIN m) -> DOMAIN m] :
        \A a, b \in 1..Cardinality(DOMAIN m) : a # b => o[a] # o[b]}

\* The rows are left in the order of the iteration.
keep_order(rows) == rows

\* Vec::sort_by(|a, b| a.0.cmp(&b.0)): a stable sort on the name.
RECURSIVE sort_by_name(_)
sort_by_name(rows) ==
    IF Len(rows) <= 1 THEN rows
    ELSE LET last == rows[Len(rows)]
             front == sort_by_name(SubSeq(rows, 1, Len(rows) - 1))
             before == SelectSeq(front, LAMBDA r : r[1] <= last[1])
             after == SelectSeq(front, LAMBDA r : r[1] > last[1])
         IN before \o << last >> \o after

\* ListSemanticViewsVTab::bind on the map m iterated in order o: one
\* (name, base_table) row per entry, sorted; it returns no error.
list_bind(m, o) ==
    [bound |-> TRUE,
     err |-> FALSE,
     rows |-> sort_by_name([i \in 1..Len(o) |-> <<o[i], json_base_table(m[o[i]])>>])]

\* DescribeSemanticViewVTab::bind: the entry is looked up, then its text is
\* parsed as a JSON value; a text that does not parse is an error.
describe_bind(m, n) ==
    IF ~contains_key(m, n) THEN "missing"
    ELSE IF ~is_json(m[n]) THEN "parse"
    ELSE "ok"

\* ------------------------------------------------------- writer channel
\* The channel delivers the newest message first.
recv_newest(ch) == [msg |-> ch[Len(ch)], rest |-> SubSeq(ch, 1, Len(ch) - 1)]

\* The channel between the callers and the worker: a queue.
send(ch, m) == Append(ch, m)

recv(ch) == [msg |-> Head(ch), rest |-> Tail(ch)]

\* ----------------------------------------------------------- call framing
\* A call begins: arguments recorded, the result of the previous call dropped.
Begin(t, op, n, j, first) ==
    /\ running
    /\ t \in active
    /\ Idle(t)
    /\ ops < MaxOps
    /\ ops' = ops + 1
    /\ persisted' = [persisted EXCEPT ![t] = FALSE]
    /\ IF op \in {"define", "catalog_insert"} /\ ~from_json_ok(j)
       THEN /\ pc' = pc
            /\ res' = [res EXCEPT ![t] = "invalid"]
            /\ call' = [call EXCEPT ![t] = Done(op)]
            /\ pre' = [pre EXCEPT ![t] = FALSE]
       ELSE /\ pc' = [pc EXCEPT ![t] = first]
            /\ res' = [res EXCEPT ![t] = "none"]
            /\ call' = [call EXCEPT ![t] = [op |-> op, name |-> n, json |-> j]]
            /\ pre' = [pre EXCEPT ![t] = n \in DOMAIN map]
    /\ UNCHANGED <<db_path, writer, running, map, table, sidecar, tmp, fd, guard,
                   chan, reply, writerAlive, anyFail, resynced, restarts,
                   active>>
    /\ inits' = 0
    /\ UNCHANGED <<writerLog, schema, loadErr, readVars, expandVars,
                   pureVars>>

\* A call returns r.
Return(t, r) ==
    /\ pc' = [pc EXCEPT ![t] = "idle"]
    /\ res' = [res EXCEPT ![t] = r]
    /\ call' = [call EXCEPT ![t] = Done(call[t].op)]
    /\ pre' = [pre EXCEPT ![t] = FALSE]
    /\ persisted' = [persisted EXCEPT ![t] = FALSE]
    /\ guard' = [guard EXCEPT ![t] = "none"]
    /\ anyFail' = (anyFail \/ r \in {"io", "gone"})

Goto(t, p) ==
    /\ pc' = [pc EXCEPT ![t] = p]
    /\ UNCHANGED <<res, anyFail, call, pre, persisted, guard>>

\* The call goes on to p holding the read guard of the map.
GotoReading(t, p) ==
    /\ pc' = [pc EXCEPT ![t] = p]
    /\ guard' = [guard EXCEPT ![t] = "read"]
    /\ UNCHANGED <<res, anyFail, call, pre, persisted>>

\* The call goes on to p with the durable write acknowledged.
GotoPersisted(t, p) ==
    /\ pc' = [pc EXCEPT ![t] = p]
    /\ persisted' = [persisted EXCEPT ![t] = TRUE]
    /\ UNCHANGED <<res, anyFail, call, pre, guard>>

\* ------------------------------------- DefineSemanticView::invoke (one row)
DefineBegin(t, n, j) ==
    /\ ~(db_path = "file" /\ writer = "None")
    /\ Begin(t, "define", n, j, "def_check")

\* The read guard of the check is kept until the call returns.
DefineCheckKeepsGuard(t) ==
    /\ running /\ pc[t] = "def_check"
    /\ IF contains_key(map, call[t].name)
       THEN Return(t, "exists")
       ELSE GotoReading(t, IF writer = "Some" THEN "def_persist"
                                                ELSE "def_write")
    /\ UNCHANGED <<db_path, writer, running, map, table, sidecar, tmp, fd, chan,
                   reply, writerAlive, active, ops,
                   restarts, resynced>>
    /\ UNCHANGED <<writerLog, loadVars, readVars, expandVars,
                   pureVars>>

\* 2. read guard, contains_key, guard dropped.
DefineCheck(t) ==
    /\ running /\ pc[t] = "def_check"
    /\ IF contains_key(map, call[t].name)
       THEN Return(t, "exists")
       ELSE Goto(t, IF writer = "Some" THEN "def_persist" ELSE "def_write")
    /\ UNCHANGED <<db_path, writer, running, map, table, sidecar, tmp, fd, chan,
                   reply, writerAlive, active, ops,
                   restarts, resynced>>
    /\ UNCHANGED <<writerLog, loadVars, readVars, expandVars,
                   pureVars>>

\* 3. writer.insert(&name, &json): the message is sent; a send to a writer
\* that has exited fails.
DefinePersist(t) ==
    /\ running /\ pc[t] = "def_persist"
    /\ IF writerAlive
       THEN /\ chan' = send(chan, [op |-> "Insert", name |-> call[t].name,
                                   json |-> call[t].json, from |-> t,
                                   seq |-> IF tracing THEN Len(sent) + 1 ELSE 0])
            /\ sent' = IF tracing
                       THEN Append(sent, [op |-> "Insert", name |-> call[t].name,
                                          json |-> call[t].json, from |-> t])
                       ELSE sent
            /\ Goto(t, "def_await")
       ELSE /\ UNCHANGED <<chan, sent>>
            /\ Return(t, "gone")
    /\ UNCHANGED <<tracing, acked, base, loadVars, readVars, expandVars,
                   pureVars>>
    /\ UNCHANGED <<db_path, writer, running, map, table, sidecar, tmp, fd,
                   reply, writerAlive, active, ops,
                   restarts, resynced>>

\* 3. writer.insert(..)?: the caller blocks on the reply; an error returns.
DefineAwait(t) ==
    /\ running /\ pc[t] = "def_await"
    /\ reply[t] # "none"
    /\ reply' = [reply EXCEPT ![t] = "none"]
    /\ IF reply[t] = "ok"
       THEN GotoPersisted(t, "def_write")
       ELSE Return(t, reply[t])
    /\ UNCHANGED <<db_path, writer, running, map, table, sidecar, tmp, fd, chan,
                   writerAlive, active, ops, restarts, resynced>>
    /\ UNCHANGED <<writerLog, loadVars, readVars, expandVars,
                   pureVars>>

\* 4. state.catalog.write().unwrap().insert(name, json); Ok.
DefineWrite(t) ==
    /\ running /\ pc[t] = "def_write"
    /\ CanWrite
    /\ map' = insert(map, call[t].name, call[t].json)
    /\ Return(t, "ok")
    /\ UNCHANGED <<db_path, writer, running, table, sidecar, tmp, fd, chan,
                   reply, writerAlive, active, ops,
                   restarts, resynced>>
    /\ UNCHANGED <<writerLog, loadVars, readVars, expandVars,
                   pureVars>>

\* --------------------------------------- DropSemanticView::invoke (one row)
DropBegin(t, n) ==
    /\ ~(db_path = "file" /\ writer = "None")
    /\ Begin(t, "drop", n, 0, "drop_check")

DropCheck(t) ==
    /\ running /\ pc[t] = "drop_check"
    /\ IF ~contains_key(map, call[t].name)
       THEN Return(t, "missing")
       ELSE Goto(t, IF writer = "Some" THEN "drop_persist" ELSE "drop_write")
    /\ UNCHANGED <<db_path, writer, running, map, table, sidecar, tmp, fd, chan,
                   reply, writerAlive, active, ops,
                   restarts, resynced>>
    /\ UNCHANGED <<writerLog, loadVars, readVars, expandVars,
                   pureVars>>

DropPersist(t) ==
    /\ running /\ pc[t] = "drop_persist"
    /\ IF writerAlive
       THEN /\ chan' = send(chan, [op |-> "Delete", name |-> call[t].name,
                                   json |-> 0, from |-> t,
                                   seq |-> IF tracing THEN Len(sent) + 1 ELSE 0])
            /\ sent' = IF tracing
                       THEN Append(sent, [op |-> "Delete", name |-> call[t].name,
                                          json |-> 0, from |-> t])
                       ELSE sent
            /\ Goto(t, "drop_await")
       ELSE /\ UNCHANGED <<chan, sent>>
            /\ Return(t, "gone")
    /\ UNCHANGED <<tracing, acked, base, loadVars, readVars, expandVars,
                   pureVars>>
    /\ UNCHANGED <<db_path, writer, running, map, table, sidecar, tmp, fd,
                   reply, writerAlive, active, ops,
                   restarts, resynced>>

DropAwait(t) ==
    /\ running /\ pc[t] = "drop_await"
    /\ reply[t] # "none"
    /\ reply' = [reply EXCEPT ![t] = "none"]
    /\ IF reply[t] = "ok"
       THEN GotoPersisted(t, "drop_write")
       ELSE Return(t, reply[t])
    /\ UNCHANGED <<db_path, writer, running, map, table, sidecar, tmp, fd, chan,
                   writerAlive, active, ops, restarts, resynced>>
    /\ UNCHANGED <<writerLog, loadVars, readVars, expandVars,
                   pureVars>>

DropWrite(t) ==
    /\ running /\ pc[t] = "drop_write"
    /\ CanWrite
    /\ map' = remove(map, call[t].name)
    /\ Return(t, "ok")
    /\ UNCHANGED <<db_path, writer, running, table, sidecar, tmp, fd, chan,
                   reply, writerAlive, active, ops,
                   restarts, resynced>>
    /\ UNCHANGED <<writerLog, loadVars, readVars, expandVars,
                   pureVars>>

\* ------------------------------------------------ background writer thread
\* The worker takes the oldest message, runs its statement on its own
\* connection, checkpoints and replies.  INSERT fails on a primary key that
\* is present; DELETE of a row that is absent deletes nothing and succeeds.
WriterApply ==
    /\ running /\ writerAlive /\ chan # << >>
    /\ LET r == recv(chan)
           m == r.msg
       IN /\ chan' = r.rest
          /\ IF m.op = "Insert"
             THEN IF contains_key(table, m.name)
                  THEN /\ table' = table
                       /\ reply' = [reply EXCEPT ![m.from] = "io"]
                       /\ acked' = acked
                  ELSE /\ table' = insert(table, m.name, m.json)
                       /\ reply' = [reply EXCEPT ![m.from] = "ok"]
                       /\ acked' = (IF tracing THEN acked \cup {m.seq} ELSE acked)
             ELSE /\ table' = remove(table, m.name)
                  /\ reply' = [reply EXCEPT ![m.from] = "ok"]
                  /\ acked' = (IF tracing THEN acked \cup {m.seq} ELSE acked)
    /\ UNCHANGED <<tracing, sent, base, loadVars, readVars, expandVars,
                   pureVars>>
    /\ UNCHANGED <<guard, db_path, writer, running, map, sidecar, tmp, fd,
                   writerAlive, pc, call, res, pre, persisted, active,
                   anyFail, ops, restarts, resynced>>

\* The statement fails in the durable store: nothing is written.
WriterIoError ==
    /\ running /\ writerAlive /\ chan # << >>
    /\ chan' = recv(chan).rest
    /\ reply' = [reply EXCEPT ![recv(chan).msg.from] = "io"]
    /\ UNCHANGED <<guard, db_path, writer, running, map, table, sidecar, tmp, fd,
                   writerAlive, pc, call, res, pre, persisted, active,
                   anyFail, ops, restarts, resynced>>
    /\ UNCHANGED <<writerLog, loadVars, readVars, expandVars,
                   pureVars>>

\* The worker exits and the pending requests get no reply.
WriterExitSilent ==
    /\ running /\ writerAlive
    /\ writerAlive' = FALSE
    /\ chan' = << >>
    /\ UNCHANGED <<guard, db_path, writer, running, map, table, sidecar, tmp, fd,
                   pc, call, res, pre, persisted, active, anyFail, ops,
                   restarts, resynced, reply>>
    /\ UNCHANGED <<writerLog, loadVars, readVars, expandVars,
                   pureVars>>

\* The worker exits: every pending request fails with WriterGone.
WriterExit ==
    /\ running /\ writerAlive
    /\ writerAlive' = FALSE
    /\ chan' = << >>
    /\ reply' = [t \in Threads |->
                    IF \E i \in 1..Len(chan) : chan[i].from = t
                    THEN "gone" ELSE reply[t]]
    /\ UNCHANGED <<guard, db_path, writer, running, map, table, sidecar, tmp, fd,
                   pc, call, res, pre, persisted, active, anyFail, ops,
                   restarts, resynced>>
    /\ UNCHANGED <<writerLog, loadVars, readVars, expandVars,
                   pureVars>>

\* ------------------------------------------------------------ catalog_insert
\* from_json, then the duplicate check under a read guard, then the insert
\* under the write guard.  On a file-backed store the caller goes on to
\* write_sidecar (catalog.rs, "the caller is responsible for calling
\* write_sidecar after this function").
CatalogInsertBegin(t, n, j) ==
    /\ writer = "None"
    /\ Begin(t, "catalog_insert", n, j, "ci_check")

\* The entry is written before the duplicate is reported.
CatalogInsertCheckUpsert(t) ==
    /\ running /\ pc[t] = "ci_check"
    /\ IF contains_key(map, call[t].name)
       THEN /\ map' = insert(map, call[t].name, call[t].json)
            /\ Return(t, "exists")
       ELSE /\ map' = map
            /\ Goto(t, "ci_write")
    /\ UNCHANGED <<db_path, writer, running, table, sidecar, tmp, fd, chan,
                   reply, writerAlive, active, ops,
                   restarts, resynced>>
    /\ UNCHANGED <<writerLog, loadVars, readVars, expandVars,
                   pureVars>>

CatalogInsertCheck(t) ==
    /\ running /\ pc[t] = "ci_check"
    /\ IF contains_key(map, call[t].name)
       THEN Return(t, "exists")
       ELSE Goto(t, "ci_write")
    /\ UNCHANGED <<db_path, writer, running, map, table, sidecar, tmp, fd, chan,
                   reply, writerAlive, active, ops,
                   restarts, resynced>>
    /\ UNCHANGED <<writerLog, loadVars, readVars, expandVars,
                   pureVars>>

CatalogInsertWrite(t) ==
    /\ running /\ pc[t] = "ci_write"
    /\ CanWrite
    /\ map' = insert(map, call[t].name, call[t].json)
    /\ IF db_path # ":memory:" THEN Goto(t, "ws_create") ELSE Return(t, "ok")
    /\ UNCHANGED <<db_path, writer, running, table, sidecar, tmp, fd, chan,
                   reply, writerAlive, active, ops,
                   restarts, resynced>>
    /\ UNCHANGED <<writerLog, loadVars, readVars, expandVars,
                   pureVars>>

\* ------------------------------------------------------------ catalog_delete
CatalogDeleteBegin(t, n) ==
    /\ writer = "None"
    /\ Begin(t, "catalog_delete", n, 0, "cd_check")

CatalogDeleteCheck(t) ==
    /\ running /\ pc[t] = "cd_check"
    /\ IF ~contains_key(map, call[t].name)
       THEN Return(t, "missing")
       ELSE Goto(t, "cd_write")
    /\ UNCHANGED <<db_path, writer, running, map, table, sidecar, tmp, fd, chan,
                   reply, writerAlive, active, ops,
                   restarts, resynced>>
    /\ UNCHANGED <<writerLog, loadVars, readVars, expandVars,
                   pureVars>>

CatalogDeleteWrite(t) ==
    /\ running /\ pc[t] = "cd_write"
    /\ CanWrite
    /\ map' = remove(map, call[t].name)
    /\ IF db_path # ":memory:" THEN Goto(t, "ws_create") ELSE Return(t, "ok")
    /\ UNCHANGED <<db_path, writer, running, table, sidecar, tmp, fd, chan,
                   reply, writerAlive, active, ops,
                   restarts, resynced>>
    /\ UNCHANGED <<writerLog, loadVars, readVars, expandVars,
                   pureVars>>

\* -------------------------------------------------------------- write_sidecar
\* The file a descriptor refers to follows its inode: a rename of the
\* temporary file moves the inode to the sidecar path, and replaces (unlinks)
\* the inode that was there.
\* state.read() and to_string (the map cannot change while the guard is
\* held, so the text written later is to_string(map)), then the first half of
\* std::fs::write: File::create opens the temporary path, truncating it.
WsCreate(t) ==
    /\ running /\ pc[t] = "ws_create"
    /\ \/ /\ tmp' = EmptyFile
          /\ fd' = [fd EXCEPT ![t] = "tmp"]
          /\ GotoReading(t, "ws_write")
       \/ /\ UNCHANGED <<tmp, fd>>
          /\ Return(t, "io")
    /\ UNCHANGED <<db_path, writer, running, map, table, sidecar, chan, reply,
                   writerAlive, active, ops, restarts, resynced>>
    /\ UNCHANGED <<writerLog, loadVars, readVars, expandVars,
                   pureVars>>

\* The second half of std::fs::write: write_all through the descriptor,
\* then the file is closed.  A failed write leaves a prefix of the text.
WsWrite(t) ==
    /\ running /\ pc[t] = "ws_write"
    /\ LET json == to_string(map)
       IN \E k \in 0..Len(json) :
             LET written == SubSeq(json, 1, k)
             IN /\ IF fd[t] = "tmp"
                   THEN /\ tmp' = Overlay(tmp, written)
                        /\ sidecar' = sidecar
                   ELSE IF fd[t] = "side"
                   THEN /\ sidecar' = Overlay(sidecar, written)
                        /\ tmp' = tmp
                   ELSE UNCHANGED <<tmp, sidecar>>
                /\ IF k = Len(json)
                   THEN Goto(t, "ws_rename")
                   ELSE Return(t, "io")
    /\ fd' = [fd EXCEPT ![t] = "none"]
    /\ UNCHANGED <<db_path, writer, running, map, table, chan, reply,
                   writerAlive, active, ops, restarts, resynced>>
    /\ UNCHANGED <<writerLog, loadVars, readVars, expandVars,
                   pureVars>>

\* std::fs::rename(&tmp, &path)?; Ok(()): the guard is dropped on return.
WsRename(t) ==
    /\ running /\ pc[t] = "ws_rename"
    /\ \/ /\ tmp # NoFile
          /\ sidecar' = tmp
          /\ tmp' = NoFile
          /\ fd' = [u \in Threads |->
                       IF fd[u] = "tmp" THEN "side"
                       ELSE IF fd[u] = "side" THEN "gone" ELSE fd[u]]
          /\ Return(t, "ok")
       \/ /\ UNCHANGED <<sidecar, tmp, fd>>
          /\ Return(t, "io")
    /\ UNCHANGED <<db_path, writer, running, map, table, chan, reply,
                   writerAlive, active, ops, restarts, resynced>>
    /\ UNCHANGED <<writerLog, loadVars, readVars, expandVars,
                   pureVars>>

\* ------------------------------------------------- describe_semantic_view
\* The bind of the table function, under the read guard, is the whole call:
\* func copies the bound fields into the one output row.
Describe(t, n) ==
    /\ running
    /\ t \in active
    /\ Idle(t)
    /\ ops < MaxOps
    /\ ops' = ops + 1
    /\ inits' = 0
    /\ res' = [res EXCEPT ![t] = describe_bind(map, n)]
    /\ call' = [call EXCEPT ![t] = [op |-> "describe", name |-> n, json |-> 0]]
    /\ UNCHANGED <<db_path, writer, running, map, table, sidecar, tmp, fd, guard,
                   chan, reply, writerAlive, anyFail, resynced, restarts,
                   active, pc, pre, persisted>>
    /\ UNCHANGED <<writerLog, schema, loadErr, readVars, expandVars,
                   pureVars>>

\* --------------------------------------------------- list_semantic_views
\* bind: the snapshot is taken under the read guard; init: done is false.
ListBind(t) ==
    /\ running
    /\ t \in active
    /\ Idle(t)
    /\ ~listBind.bound
    /\ ops < MaxOps
    /\ ops' = ops + 1
    /\ inits' = 0
    /\ \E o \in IterOrders(map) : listBind' = list_bind(map, o)
    /\ listSnap' = map
    /\ listDone' = FALSE
    /\ listOut' = << >>
    /\ pc' = [pc EXCEPT ![t] = "list_func"]
    /\ res' = [res EXCEPT ![t] = "none"]
    /\ call' = [call EXCEPT ![t] = [op |-> "list", name |-> 0, json |-> 0]]
    /\ UNCHANGED <<db_path, writer, running, map, table, sidecar, tmp, fd, guard,
                   chan, reply, writerAlive, anyFail, resynced, restarts,
                   active, pre, persisted>>
    /\ UNCHANGED <<writerLog, schema, loadErr, expandVars,
                   pureVars>>

\* func: the first call emits the rows of the snapshot and sets done; the
\* call after it emits an empty chunk, which ends the scan.
ListFunc(t) ==
    /\ running /\ pc[t] = "list_func"
    /\ IF ~listDone
       THEN /\ listDone' = TRUE
            /\ listOut' = listOut \o listBind.rows
            /\ UNCHANGED <<listBind, listSnap>>
            /\ UNCHANGED <<pc, res, call, pre, persisted, guard, anyFail>>
       ELSE /\ listBind' = NoScan
            /\ listSnap' = EmptyMap
            /\ listDone' = FALSE
            /\ listOut' = << >>
            /\ Return(t, "ok")
    /\ UNCHANGED <<db_path, writer, running, map, table, sidecar, tmp, fd, chan,
                   reply, writerAlive, active, ops, restarts, resynced>>
    /\ UNCHANGED <<writerLog, loadVars, expandVars,
                   pureVars>>

\* ----------------------------------------------------- crash and extension load
\* The process dies: memory is lost, files and the rows of a database file stay.
Crash ==
    /\ running
    /\ restarts < MaxRestarts
    /\ restarts' = restarts + 1
    /\ running' = FALSE
    /\ writerAlive' = FALSE
    /\ map' = EmptyMap
    /\ table' = IF db_path = ":memory:" THEN EmptyMap ELSE table
    /\ fd' = [t \in Threads |-> "none"]
    /\ guard' = [t \in Threads |-> "none"]
    /\ chan' = << >>
    /\ reply' = [t \in Threads |-> "none"]
    /\ pc' = [t \in Threads |-> "idle"]
    /\ call' = [t \in Threads |-> NoCall]
    /\ res' = [t \in Threads |-> "none"]
    /\ pre' = [t \in Threads |-> FALSE]
    /\ persisted' = [t \in Threads |-> FALSE]
    /\ UNCHANGED <<db_path, writer, sidecar, tmp, active, anyFail, resynced,
                   ops>>
    /\ schema' = (db_path # ":memory:")
    /\ listBind' = NoScan
    /\ listSnap' = EmptyMap
    /\ listDone' = FALSE
    /\ listOut' = << >>
    /\ UNCHANGED <<writerLog, loadErr, inits, expandVars,
                   pureVars>>

\* extension_entrypoint: init_catalog, then the writer thread is spawned for a
\* store that has one.
InitCatalog ==
    /\ ~running
    /\ LET r == init_catalog(schema, table, sidecar, db_path)
       IN /\ map' = r.map
          /\ table' = r.table
          /\ schema' = r.schema
          /\ loadErr' = r.err
          /\ running' = ~r.err
          /\ writerAlive' = (~r.err /\ writer = "Some")
          /\ base' = (IF tracing THEN r.table ELSE base)
          /\ resynced' = \E n \in DOMAIN table :
                              n \notin DOMAIN r.table \/ r.table[n] # table[n]
    /\ inits' = IF db_path = ":memory:" THEN 1 ELSE inits + 1
    /\ sent' = << >>
    /\ acked' = {}
    /\ anyFail' = FALSE
    /\ UNCHANGED <<tracing, readVars, expandVars,
                   pureVars>>
    /\ UNCHANGED <<db_path, active, writer, sidecar, tmp, fd, guard, chan, reply,
                   pc, call, res, pre, persisted, ops, restarts>>

Next ==
    \/ \E t \in Threads, n \in Names, j \in Texts : DefineBegin(t, n, j)
    \/ \E t \in Threads : DefineCheck(t)
    \/ \E t \in Threads : DefinePersist(t)
    \/ \E t \in Threads : DefineAwait(t)
    \/ \E t \in Threads : DefineWrite(t)
    \/ \E t \in Threads, n \in Names : DropBegin(t, n)
    \/ \E t \in Threads : DropCheck(t)
    \/ \E t \in Threads : DropPersist(t)
    \/ \E t \in Threads : DropAwait(t)
    \/ \E t \in Threads : DropWrite(t)
    \/ WriterApply
    \/ WriterIoError
    \/ WriterExit
    \/ \E t \in Threads, n \in Names, j \in Texts : CatalogInsertBegin(t, n, j)
    \/ \E t \in Threads : CatalogInsertCheck(t)
    \/ \E t \in Threads : CatalogInsertWrite(t)
    \/ \E t \in Threads, n \in Names : CatalogDeleteBegin(t, n)
    \/ \E t \in Threads : CatalogDeleteCheck(t)
    \/ \E t \in Threads : CatalogDeleteWrite(t)
    \/ \E t \in Threads : WsCreate(t)
    \/ \E t \in Threads : WsWrite(t)
    \/ \E t \in Threads : WsRename(t)
    \/ Crash
    \/ InitCatalog

Spec == Init /\ [][Next]_vars

SpecSeq == InitSeq /\ [][Next]_vars

\* The scalar functions and the table functions, called one at a time.
NextReads ==
    \/ Next
    \/ \E t \in Threads, n \in Names : Describe(t, n)
    \/ \E t \in Threads : ListBind(t)
    \/ \E t \in Threads : ListFunc(t)

SpecReads == InitSeq /\ [][NextReads]_vars

\* An in-memory store, its functions called from several threads.
InitScan ==
    /\ Loaded(<<":memory:", "None">>, EmptyMap, FALSE)
    /\ NoReads
    /\ NoExpand
    /\ NoPure
    /\ active = Threads

NextScan ==
    \/ \E t \in Threads, n \in Names, j \in Texts : DefineBegin(t, n, j)
    \/ \E t \in Threads : DefineCheck(t)
    \/ \E t \in Threads : DefineWrite(t)
    \/ \E t \in Threads, n \in Names : DropBegin(t, n)
    \/ \E t \in Threads : DropCheck(t)
    \/ \E t \in Threads : DropWrite(t)
    \/ \E t \in Threads, n \in Names : Describe(t, n)
    \/ \E t \in Threads : ListBind(t)
    \/ \E t \in Threads : ListFunc(t)

SpecScan == InitScan /\ [][NextScan]_vars

\* One session (the process does not crash), calls made one at a time.
NextSession ==
    \/ \E t \in Threads, n \in Names, j \in Texts : DefineBegin(t, n, j)
    \/ \E t \in Threads : DefineCheck(t)
    \/ \E t \in Threads : DefinePersist(t)
    \/ \E t \in Threads : DefineAwait(t)
    \/ \E t \in Threads : DefineWrite(t)
    \/ \E t \in Threads, n \in Names : DropBegin(t, n)
    \/ \E t \in Threads : DropCheck(t)
    \/ \E t \in Threads : DropPersist(t)
    \/ \E t \in Threads : DropAwait(t)
    \/ \E t \in Threads : DropWrite(t)
    \/ WriterApply
    \/ WriterIoError
    \/ WriterExit
    \/ \E t \in Threads, n \in Names, j \in Texts : CatalogInsertBegin(t, n, j)
    \/ \E t \in Threads : CatalogInsertCheck(t)
    \/ \E t \in Threads : CatalogInsertWrite(t)
    \/ \E t \in Threads, n \in Names : CatalogDeleteBegin(t, n)
    \/ \E t \in Threads : CatalogDeleteCheck(t)
    \/ \E t \in Threads : CatalogDeleteWrite(t)
    \/ \E t \in Threads : WsCreate(t)
    \/ \E t \in Threads : WsWrite(t)
    \/ \E t \in Threads : WsRename(t)

SpecSession == InitSeq /\ [][NextSession]_vars

\* One session, every function of the catalog called from several threads.
NextLock ==
    \/ NextSession
    \/ \E t \in Threads, n \in Names : Describe(t, n)
    \/ \E t \in Threads : ListBind(t)
    \/ \E t \in Threads : ListFunc(t)

\* The steps a call of thread t takes after it has begun.
Proceeds(t) ==
    \/ DefineCheck(t) \/ DefinePersist(t) \/ DefineAwait(t) \/ DefineWrite(t)
    \/ DropCheck(t) \/ DropPersist(t) \/ DropAwait(t) \/ DropWrite(t)
    \/ CatalogInsertCheck(t) \/ CatalogInsertWrite(t)
    \/ CatalogDeleteCheck(t) \/ CatalogDeleteWrite(t)
    \/ WsCreate(t) \/ WsWrite(t) \/ WsRename(t)
    \/ ListFunc(t)

\* The host's threads and the worker thread are threads the operating
\* system runs: one that can take its next step does so.
FairLock ==
    /\ WF_vars(WriterApply \/ WriterIoError)
    /\ \A t \in Threads : WF_vars(Proceeds(t))

SpecLockFair == Init /\ [][NextLock]_vars /\ FairLock

\* --------------------------------------------- the store with a writer thread
\* What the table of a database file held before this load: nothing, or one
\* view defined in an earlier session.
EarlierRows == {EmptyMap, [n \in {1} |-> 1]}

\* One session of a file-backed store whose define and drop persist through
\* the writer, called from several threads.
InitWriter ==
    /\ \E rows \in EarlierRows : Loaded(<<"file", "Some">>, rows, TRUE)
    /\ NoReads
    /\ NoExpand
    /\ NoPure
    /\ active = Threads

NextWriter ==
    \/ \E t \in Threads, n \in Names, j \in Texts : DefineBegin(t, n, j)
    \/ \E t \in Threads : DefineCheck(t)
    \/ \E t \in Threads : DefinePersist(t)
    \/ \E t \in Threads : DefineAwait(t)
    \/ \E t \in Threads : DefineWrite(t)
    \/ \E t \in Threads, n \in Names : DropBegin(t, n)
    \/ \E t \in Threads : DropCheck(t)
    \/ \E t \in Threads : DropPersist(t)
    \/ \E t \in Threads : DropAwait(t)
    \/ \E t \in Threads : DropWrite(t)
    \/ WriterApply
    \/ WriterIoError
    \/ WriterExit

SpecWriter == InitWriter /\ [][NextWriter]_vars

\* The worker thread, while it lives, goes on receiving, and a caller whose
\* reply has arrived goes on: both are threads the operating system runs.
FairWriter ==
    /\ WF_vars(WriterApply \/ WriterIoError)
    /\ \A t \in Threads : WF_vars(DefineAwait(t) \/ DropAwait(t))

SpecWriterFair == InitWriter /\ [][NextWriter]_vars /\ FairWriter

\* ------------------------------------------------------------------ strings
\* A string is the sequence of its characters. A text the code never looks
\* into (an expression, a filter) may be given as one piece, and the pieces
\* the code writes literally are one piece each.
Quote == "\""

Upper == <<"A", "B", "C", "D", "E", "F", "G", "H", "I", "J", "K", "L", "M",
           "N", "O", "P", "Q", "R", "S", "T", "U", "V", "W", "X", "Y", "Z">>

Lower == <<"a", "b", "c", "d", "e", "f", "g", "h", "i", "j", "k", "l", "m",
           "n", "o", "p", "q", "r", "s", "t", "u", "v", "w", "x", "y", "z">>

\* u8::to_ascii_lowercase
char_to_ascii_lowercase(c) ==
    IF \E i \in DOMAIN Upper : Upper[i] = c
    THEN Lower[CHOOSE i \in DOMAIN Upper : Upper[i] = c]
    ELSE c

to_ascii_lowercase(s) == [i \in DOMAIN s |-> char_to_ascii_lowercase(s[i])]

eq_ignore_ascii_case(a, b) == to_ascii_lowercase(a) = to_ascii_lowercase(b)

\* str::contains: needle occurs in hay as a contiguous run.
contains(hay, needle) ==
    \E k \in 0..(Len(hay) - Len(needle)) :
        SubSeq(hay, k + 1, k + Len(needle)) = needle

\* [String]::join
RECURSIVE join(_, _)
join(items, sep) ==
    IF Len(items) = 0 THEN << >>
    ELSE IF Len(items) = 1 THEN items[1]
    ELSE items[1] \o sep \o join(Tail(items), sep)

Min3(a, b, c) ==
    IF a <= b /\ a <= c THEN a ELSE IF b <= c THEN b ELSE c

\* strsim::levenshtein: the least number of single-character insertions,
\* deletions and substitutions that turn a into b.
RECURSIVE levenshtein(_, _)
levenshtein(a, b) ==
    IF Len(a) = 0 THEN Len(b)
    ELSE IF Len(b) = 0 THEN Len(a)
    ELSE IF Head(a) = Head(b) THEN levenshtein(Tail(a), Tail(b))
    ELSE 1 + Min3(levenshtein(Tail(a), b),
                  levenshtein(a, Tail(b)),
                  levenshtein(Tail(a), Tail(b)))

\* The largest edit distance at which a name is still suggested.
SuggestMaxDist == 3

\* The loop of suggest_closest that lets a later candidate at the same
\* distance replace the best one.
RECURSIVE suggest_from_last_tie(_, _, _, _)
suggest_from_last_tie(query, available, i, best) ==
    IF i > Len(available) THEN best
    ELSE LET dist == levenshtein(query, to_ascii_lowercase(available[i]))
             better == /\ dist <= SuggestMaxDist
                       /\ (best = << >> \/ dist <= best[1].dist)
         IN  suggest_from_last_tie(query, available, i + 1,
                 IF better THEN <<[dist |-> dist, name |-> available[i]]>>
                 ELSE best)

\* The loop of suggest_closest from candidate i on; best is << >> or
\* <<[dist, name]>>.
RECURSIVE suggest_from(_, _, _, _)
suggest_from(query, available, i, best) ==
    IF i > Len(available) THEN best
    ELSE LET dist == levenshtein(query, to_ascii_lowercase(available[i]))
             better == /\ dist <= SuggestMaxDist
                       /\ (best = << >> \/ dist < best[1].dist)
         IN  suggest_from(query, available, i + 1,
                 IF better THEN <<[dist |-> dist, name |-> available[i]]>>
                 ELSE best)

\* Option<String>: << >> is None and <<s>> is Some(s).
suggest_closest(name, available) ==
    LET best == suggest_from(to_ascii_lowercase(name), available, 1, << >>)
    IN  IF best = << >> THEN << >> ELSE <<best[1].name>>

\* No replacement: the identifier as it is.
replace_quote_none(s) == s

\* str::replace('"', "\"\"")
RECURSIVE replace_quote(_)
replace_quote(s) ==
    IF Len(s) = 0 THEN << >>
    ELSE (IF Head(s) = Quote THEN <<Quote, Quote>> ELSE <<Head(s)>>)
         \o replace_quote(Tail(s))

quote_ident(ident) == <<Quote>> \o replace_quote(ident) \o <<Quote>>

\* ------------------------------------------------------------------- expand
\* Option<T>: << >> is None and <<x>> is Some(x).
Dimension(name, expr, source_table) ==
    [name |-> name, expr |-> expr, source_table |-> source_table]

Metric(name, expr, source_table) ==
    [name |-> name, expr |-> expr, source_table |-> source_table]

Join(tbl, on) == [table |-> tbl, on |-> on]

\* find_dimension, find_metric: the position of the first declared item whose
\* name equals name but for the case of its letters, 0 when there is none.
find_named(declared, name) ==
    LET hit(k) == eq_ignore_ascii_case(declared[k].name, name)
    IN  IF \E k \in DOMAIN declared : hit(k)
        THEN CHOOSE k \in DOMAIN declared :
                 hit(k) /\ \A j \in 1..(k - 1) : ~hit(j)
        ELSE 0

\* The error for an unknown name that reports the name lowercased, as it was
\* compared.
unknown_name_lowercased(view, unknown, name, declared) ==
    LET available == [j \in DOMAIN declared |-> declared[j].name]
    IN  [ok |-> FALSE,
         err |-> [kind |-> unknown, view_name |-> view,
                  name |-> to_ascii_lowercase(name), available |-> available,
                  suggestion |-> suggest_closest(name, available)]]

\* ExpandError::UnknownDimension or UnknownMetric for a requested name that
\* find_dimension or find_metric did not find.
unknown_name(view, unknown, name, declared) ==
    LET available == [j \in DOMAIN declared |-> declared[j].name]
    IN  [ok |-> FALSE,
         err |-> [kind |-> unknown, view_name |-> view,
                  name |-> name, available |-> available,
                  suggestion |-> suggest_closest(name, available)]]

\* The loop of resolve_names that gives a resolved item the name as the
\* request spells it.
RECURSIVE resolve_as_requested(_, _, _, _, _, _, _, _)
resolve_as_requested(view, declared, names, i, seen, acc, dup, unk) ==
    IF i > Len(names) THEN [ok |-> TRUE, items |-> acc]
    ELSE LET name == names[i]
             lower == to_ascii_lowercase(name)
             k == find_named(declared, name)
         IN  IF lower \in seen
             THEN [ok |-> FALSE,
                   err |-> [kind |-> dup, view_name |-> view,
                            name |-> name]]
             ELSE IF k = 0
             THEN unknown_name(view, unk, name, declared)
             ELSE resolve_as_requested(view, declared, names, i + 1,
                      seen \cup {lower},
                      Append(acc, [declared[k] EXCEPT !.name = name]),
                      dup, unk)

\* The loop that resolves the requested names from the i-th on: seen holds the
\* lowercased names met so far, acc the items resolved so far.
RECURSIVE resolve_names(_, _, _, _, _, _, _, _)
resolve_names(view, declared, names, i, seen, acc, duplicate, unknown) ==
    IF i > Len(names) THEN [ok |-> TRUE, items |-> acc]
    ELSE LET name == names[i]
             lower == to_ascii_lowercase(name)
             k == find_named(declared, name)
         IN  IF lower \in seen
             THEN [ok |-> FALSE,
                   err |-> [kind |-> duplicate, view_name |-> view,
                            name |-> name]]
             ELSE IF k = 0
             THEN unknown_name(view, unknown, name, declared)
             ELSE resolve_names(view, declared, names, i + 1,
                                seen \cup {lower}, Append(acc, declared[k]),
                                duplicate, unknown)

resolve_dimensions(view, d, r) ==
    resolve_names(view, d.dimensions, r.dimensions, 1, {}, << >>,
                  "DuplicateDimension", "UnknownDimension")

resolve_metrics(view, d, r) ==
    resolve_names(view, d.metrics, r.metrics, 1, {}, << >>,
                  "DuplicateMetric", "UnknownMetric")

\* A pass that marks a change for every other table a needed join mentions,
\* whether the needed set holds it already or not.
RECURSIVE join_pass_rechecking(_, _, _, _, _)
join_pass_rechecking(joins, i, j, needed, changed) ==
    IF i > Len(joins) THEN [needed |-> needed, changed |-> changed]
    ELSE LET table_lower == to_ascii_lowercase(joins[i].table)
             on_lower == to_ascii_lowercase(joins[i].on)
         IN  IF j = 1 /\ table_lower \notin needed
             THEN join_pass_rechecking(joins, i + 1, 1, needed, changed)
             ELSE IF j > Len(joins)
             THEN join_pass_rechecking(joins, i + 1, 1, needed, changed)
             ELSE LET other_lower == to_ascii_lowercase(joins[j].table)
                  IN  IF /\ other_lower # table_lower
                         /\ contains(on_lower, other_lower)
                      THEN join_pass_rechecking(joins, i, j + 1,
                                                needed \cup {other_lower}, TRUE)
                      ELSE join_pass_rechecking(joins, i, j + 1, needed,
                                                changed)

\* One pass of the fixed-point loop of resolve_joins, at join i and other
\* join j: the needed set as the pass leaves it, and whether it grew.
RECURSIVE join_pass(_, _, _, _, _)
join_pass(joins, i, j, needed, changed) ==
    IF i > Len(joins) THEN [needed |-> needed, changed |-> changed]
    ELSE LET table_lower == to_ascii_lowercase(joins[i].table)
             on_lower == to_ascii_lowercase(joins[i].on)
         IN  IF j = 1 /\ table_lower \notin needed
             THEN join_pass(joins, i + 1, 1, needed, changed)
             ELSE IF j > Len(joins)
             THEN join_pass(joins, i + 1, 1, needed, changed)
             ELSE LET other_lower == to_ascii_lowercase(joins[j].table)
                  IN  IF /\ other_lower # table_lower
                         /\ other_lower \notin needed
                         /\ contains(on_lower, other_lower)
                      THEN join_pass(joins, i, j + 1,
                                     needed \cup {other_lower}, TRUE)
                      ELSE join_pass(joins, i, j + 1, needed, changed)

\* Only the tables the resolved items name: no transitive dependency.
join_closure_direct(joins, needed) == needed

RECURSIVE join_closure(_, _)
join_closure(joins, needed) ==
    LET r == join_pass(joins, 1, 1, needed, FALSE)
    IN  IF r.changed THEN join_closure(joins, r.needed) ELSE r.needed

\* resolve_joins that returns the joins the resolved items name before the
\* joins those depend on.
resolve_joins_direct_first(joins, resolved_dims, resolved_mets) ==
    LET sources(items) ==
            {to_ascii_lowercase(items[i].source_table[1]) :
                 i \in {i \in DOMAIN items : items[i].source_table # << >>}}
        needed == sources(resolved_dims) \cup sources(resolved_mets)
    IN  IF needed = {} THEN << >>
        ELSE LET all == join_closure(joins, needed)
             IN  SelectSeq(joins,
                     LAMBDA jn : to_ascii_lowercase(jn.table) \in needed)
                 \o SelectSeq(joins,
                     LAMBDA jn : to_ascii_lowercase(jn.table) \in all \ needed)

resolve_joins(joins, resolved_dims, resolved_mets) ==
    LET sources(items) ==
            {to_ascii_lowercase(items[i].source_table[1]) :
                 i \in {i \in DOMAIN items : items[i].source_table # << >>}}
        needed == sources(resolved_dims) \cup sources(resolved_mets)
    IN  IF needed = {} THEN << >>
        ELSE LET all == join_closure(joins, needed)
             IN  SelectSeq(joins,
                     LAMBDA jn : to_ascii_lowercase(jn.table) \in all)

\* Step 5 of expand: the JOIN clauses of the base CTE.
join_clauses(needed_joins) ==
    join([i \in DOMAIN needed_joins |->
             <<"\n    JOIN ">> \o quote_ident(needed_joins[i].table)
             \o <<" ON ">> \o needed_joins[i].on],
         << >>)

\* The WHERE clause with the filters joined as they are, without parentheses.
where_clause_bare(filters) ==
    IF filters # << >>
    THEN <<"\n    WHERE ">> \o join(filters, <<" AND ">>)
    ELSE << >>

\* Step 5 of expand: the WHERE clause of the base CTE.
where_clause(filters) ==
    IF filters # << >>
    THEN <<"\n    WHERE ">>
         \o join([i \in DOMAIN filters |-> <<"(">> \o filters[i] \o <<")">>],
                 <<" AND ">>)
    ELSE << >>

\* Step 6 of expand: the items of the outer SELECT.
select_items(resolved_dims, resolved_mets) ==
    LET select_item(it) ==
            <<"    ">> \o it.expr \o <<" AS ">> \o quote_ident(it.name)
    IN  [i \in DOMAIN resolved_dims |-> select_item(resolved_dims[i])]
        \o [i \in DOMAIN resolved_mets |-> select_item(resolved_mets[i])]

\* Step 8 of expand: the GROUP BY clause.
group_by_clause(resolved_dims) ==
    IF resolved_dims # << >>
    THEN <<"\nGROUP BY\n">>
         \o join([i \in DOMAIN resolved_dims |->
                      <<"    ">> \o resolved_dims[i].expr],
                 <<",\n">>)
    ELSE << >>

\* Steps 4 to 8 of expand: the SQL text for the resolved items.
build_sql(d, resolved_dims, resolved_mets) ==
    <<"WITH \"_base\" AS (\n    SELECT *\n    FROM ">>
    \o quote_ident(d.base_table)
    \o join_clauses(resolve_joins(d.joins, resolved_dims, resolved_mets))
    \o where_clause(d.filters)
    \o <<"\n)">>
    \o <<"\nSELECT\n">>
    \o join(select_items(resolved_dims, resolved_mets), <<",\n">>)
    \o <<"\nFROM \"_base\"">>
    \o group_by_clause(resolved_dims)

\* Steps 2 to 8 of expand.
\* The requested metrics are resolved before the requested dimensions.
expand_resolve_metrics_first(view, d, r) ==
    LET dims == resolve_dimensions(view, d, r)
        mets == resolve_metrics(view, d, r)
    IN  IF ~mets.ok THEN mets
        ELSE IF ~dims.ok THEN dims
        ELSE [ok |-> TRUE, sql |-> build_sql(d, dims.items, mets.items)]

expand_resolve(view, d, r) ==
    LET dims == resolve_dimensions(view, d, r)
        mets == resolve_metrics(view, d, r)
    IN  IF ~dims.ok THEN dims
        ELSE IF ~mets.ok THEN mets
        ELSE [ok |-> TRUE, sql |-> build_sql(d, dims.items, mets.items)]

EmptyMetrics(view) ==
    [ok |-> FALSE, err |-> [kind |-> "EmptyMetrics", view_name |-> view]]

\* expand with the check for an empty metric list made after the requested
\* dimensions are resolved.
expand_dimensions_first(view, d, r) ==
    LET dims == resolve_dimensions(view, d, r)
    IN  IF ~dims.ok THEN dims
        ELSE IF r.metrics = << >> THEN EmptyMetrics(view)
        ELSE expand_resolve(view, d, r)

\* Result<String, ExpandError>
expand(view, d, r) ==
    IF r.metrics = << >> THEN EmptyMetrics(view)
    ELSE expand_resolve(view, d, r)

\* -------------------------------------------------- the inputs of expand
\* The longest list of names a request gives for dimensions or for metrics.
MaxReqLen == 2

BoundedSeq(S, n) == UNION {[1..k -> S] : k \in 0..n}

ViewNames == {<<"v">>}

\* A filter and an expression are texts expand copies and never looks into.
Filters == <<<<"x > 0">>, <<"y IS NOT NULL">>>>

\* k is declared before j, and the ON text of j mentions k.
Joins ==
    <<Join(<<"K">>, <<"t", ".", "i", "=", "k", ".", "i">>),
      Join(<<"j">>, <<"k", ".", "u", "=", "j", ".", "u">>)>>

\* A chain: r needs q and q needs p, declared in the order p, q, r.
ChainJoins ==
    <<Join(<<"p">>, <<"t", ".", "i", "=", "p", ".", "i">>),
      Join(<<"q">>, <<"p", ".", "u", "=", "q", ".", "u">>),
      Join(<<"r">>, <<"q", ".", "w", "=", "r", ".", "w">>)>>

Dimensions ==
    <<Dimension(<<"a">>, <<"x">>, << >>),
      Dimension(<<"B">>, <<"y">>, <<<<"J">>>>)>>

Metrics ==
    <<Metric(<<"c">>, <<"sum(x)">>, << >>),
      Metric(<<"a", "b">>, <<"count(*)">>, <<<<"k">>>>)>>

SemanticViewDefinition(base_table, dimensions, metrics, filters, joins) ==
    [base_table |-> base_table, dimensions |-> dimensions,
     metrics |-> metrics, filters |-> filters, joins |-> joins]

\* The definitions expand is applied to: one base table alone; joins and
\* filters; no dimension; names that hold a double quote; no metric; a chain
\* of joins, and a source table that no join declares.
Defs ==
    {SemanticViewDefinition(<<"t">>, SubSeq(Dimensions, 1, 1),
                            SubSeq(Metrics, 1, 1), << >>, << >>),
     SemanticViewDefinition(<<"t">>, Dimensions, Metrics, Filters, Joins),
     SemanticViewDefinition(<<"t">>, << >>, Metrics,
                            SubSeq(Filters, 1, 1), Joins),
     SemanticViewDefinition(<<"t", Quote>>,
                            <<Dimension(<<"a", Quote>>, <<"x">>, << >>)>>,
                            <<Metric(<<Quote, "c">>, <<"sum(x)">>, << >>)>>,
                            << >>, << >>),
     SemanticViewDefinition(<<"t">>, Dimensions, << >>, << >>, Joins),
     SemanticViewDefinition(<<"t">>,
                            <<Dimension(<<"a">>, <<"r.x">>, <<<<"R">>>>)>>,
                            <<Metric(<<"c">>, <<"sum(x)">>, <<<<"s">>>>)>>,
                            << >>, ChainJoins)}

\* The names a request gives: declared names as declared and in another
\* case, a name close to a declared one, and a name far from all of them.
ReqNames ==
    {<<"a">>, <<"A">>, <<"b">>, <<"c">>, <<"a", "b">>,
     <<"z", "z", "z", "z", "z">>}

QueryRequest(dimensions, metrics) ==
    [dimensions |-> dimensions, metrics |-> metrics]

Requests ==
    {QueryRequest(ds, ms) : ds \in BoundedSeq(ReqNames, MaxReqLen),
                            ms \in BoundedSeq(ReqNames, MaxReqLen)}

InitExpand ==
    /\ Loaded(<<":memory:", "None">>, EmptyMap, FALSE)
    /\ NoReads
    /\ active = Threads
    /\ NoPure
    /\ view_name \in ViewNames
    /\ def \in {<<d>> : d \in Defs}
    /\ req \in {<<r>> : r \in Requests}
    /\ result = << >>

\* One call of expand.
Expand ==
    /\ def # << >>
    /\ req # << >>
    /\ result = << >>
    /\ result' = <<expand(view_name, def[1], req[1])>>
    /\ UNCHANGED <<catalogVars, view_name, def, req, pureVars>>

NextExpand == Expand

SpecExpand == InitExpand /\ [][NextExpand]_vars

\* -------------------------------------------- suggest_closest on its own
\* The most names a list of candidates holds.
MaxCandidates == 2

\* Names at distances 0 to 4 of each other once lowercased.
SuggestNames ==
    {<<"a">>, <<"A">>, <<"b">>, <<"A", "b">>, <<"a", "b", "c", "d">>,
     <<"z", "z", "z", "z">>}

InitSuggest ==
    /\ Loaded(<<":memory:", "None">>, EmptyMap, FALSE)
    /\ NoReads
    /\ NoExpand
    /\ active = Threads
    /\ wanted \in {<<n>> : n \in SuggestNames}
    /\ candidates \in {<<c>> : c \in BoundedSeq(SuggestNames, MaxCandidates)}
    /\ suggested = << >>
    /\ identifier = << >>
    /\ quoted = << >>
    /\ json_name = << >>
    /\ json_text = << >>
    /\ parsed = << >>
    /\ NoOther

\* One call of suggest_closest.
Suggest ==
    /\ wanted # << >>
    /\ suggested = << >>
    /\ suggested' = <<suggest_closest(wanted[1], candidates[1])>>
    /\ UNCHANGED <<catalogVars, expandVars, wanted, candidates, quoteVars,
                   parseVars, otherVars>>

NextSuggest == Suggest

SpecSuggest == InitSuggest /\ [][NextSuggest]_vars

\* ------------------------------------- SemanticViewDefinition::from_json
\* A text is given by its kind and, for a JSON object, by the function from
\* its keys to their values, for a JSON array by the sequence of its elements.
\* The values given for a field are of the type the field expects, and the
\* items of dimensions, metrics and joins are objects.
DefinitionFields == {"base_table", "dimensions", "metrics", "filters", "joins"}

DefinitionRequired == {"base_table", "dimensions", "metrics"}

\* Dimension and Metric
ItemFields == {"name", "expr", "source_table"}

ItemRequired == {"name", "expr"}

JoinFields == {"table", "on"}

\* Without #[serde(deny_unknown_fields)]: keys that name no field are skipped.
unknown_fields_ignored(object, fields) == {}

\* #[serde(deny_unknown_fields)]: the keys of the object that name no field.
unknown_fields(object, fields) == DOMAIN object \ fields

\* Deserialize of Dimension and of Metric, derived: name and expr are
\* required, source_table defaults to None, other keys are skipped.
deserialize_item(object) ==
    IF ~(ItemRequired \subseteq DOMAIN object) THEN [ok |-> FALSE]
    ELSE [ok |-> TRUE,
          value |-> [name |-> object.name, expr |-> object.expr,
                     source_table |->
                         IF "source_table" \in DOMAIN object
                         THEN <<object.source_table>> ELSE << >>]]

\* Deserialize of Join, derived: table and on are required.
deserialize_join(object) ==
    IF ~(JoinFields \subseteq DOMAIN object) THEN [ok |-> FALSE]
    ELSE [ok |-> TRUE, value |-> Join(object.table, object.on)]

\* The fields of a definition in the order the struct declares them: the
\* order in which the derived visit_seq reads the elements of an array.
DefinitionFieldOrder ==
    <<"base_table", "dimensions", "metrics", "filters", "joins">>

\* The derived visit_seq: element i is field i, an array too short for the
\* required fields or longer than the struct is an error, and a missing
\* trailing field with #[serde(default)] takes its default.
seq_as_object(elements) ==
    IF \/ Len(elements) < Cardinality(DefinitionRequired)
       \/ Len(elements) > Len(DefinitionFieldOrder)
    THEN [ok |-> FALSE]
    ELSE [ok |-> TRUE,
          object |->
              [k \in {DefinitionFieldOrder[i] : i \in DOMAIN elements} |->
                  elements[CHOOSE i \in DOMAIN elements :
                               DefinitionFieldOrder[i] = k]]]

\* The derived visit_map for SemanticViewDefinition.
deserialize_object(object) ==
    LET has(k) == k \in DOMAIN object
        dims == [i \in DOMAIN object.dimensions |->
                    deserialize_item(object.dimensions[i])]
        mets == [i \in DOMAIN object.metrics |->
                    deserialize_item(object.metrics[i])]
        jns == IF has("joins")
               THEN [i \in DOMAIN object.joins |->
                        deserialize_join(object.joins[i])]
               ELSE << >>
    IN  IF unknown_fields(object, DefinitionFields) # {}
        THEN [ok |-> FALSE]
        ELSE IF ~(DefinitionRequired \subseteq DOMAIN object)
        THEN [ok |-> FALSE]
        ELSE IF \/ \E i \in DOMAIN dims : ~dims[i].ok
                \/ \E i \in DOMAIN mets : ~mets[i].ok
                \/ \E i \in DOMAIN jns : ~jns[i].ok
        THEN [ok |-> FALSE]
        ELSE [ok |-> TRUE,
              value |-> SemanticViewDefinition(
                  object.base_table,
                  [i \in DOMAIN dims |-> dims[i].value],
                  [i \in DOMAIN mets |-> mets[i].value],
                  IF has("filters") THEN object.filters ELSE << >>,
                  [i \in DOMAIN jns |-> jns[i].value])]

\* serde_json::from_str::<SemanticViewDefinition>: a struct is read from a
\* JSON object or from a JSON array, and from nothing else.
deserialize_definition(json) ==
    CASE json.kind = "object" -> deserialize_object(json.object)
      [] json.kind = "array" ->
             LET r == seq_as_object(json.elements)
             IN  IF r.ok THEN deserialize_object(r.object) ELSE r
      [] OTHER -> [ok |-> FALSE]

\* SemanticViewDefinition::from_json: the definition, or the message made
\* of the view name and the text of serde_json's error.
from_json(name, json) ==
    LET r == deserialize_definition(json)
    IN  IF r.ok THEN r
        ELSE [ok |-> FALSE,
              msg |-> <<"invalid definition for semantic view '">> \o name
                      \o <<"': ">> \o <<"{e}">>]

\* The arrays given for dimensions: empty; one item; one with a source table;
\* one with a key that names no field; one without expr.
DimensionArrays ==
    {<< >>,
     <<[name |-> <<"a">>, expr |-> <<"x">>]>>,
     <<[name |-> <<"a">>, expr |-> <<"x">>, source_table |-> <<"j">>]>>,
     <<[name |-> <<"a">>, expr |-> <<"x">>, typo |-> <<"y">>]>>,
     <<[name |-> <<"a">>]>>}

\* The value given for the key k of a JSON object.
KeyValue(k, dimensions) ==
    CASE k = "base_table" -> <<"t">>
      [] k = "dimensions" -> dimensions
      [] k = "metrics" -> <<[name |-> <<"c">>, expr |-> <<"sum(x)">>]>>
      [] k = "filters" -> <<<<"x > 0">>>>
      [] k = "joins" -> <<[table |-> <<"j">>, on |-> <<"t.i = j.i">>]>>
      [] OTHER -> <<"1">>

JsonText(kind, object, elements) ==
    [kind |-> kind, object |-> object, elements |-> elements]

NoKeys == [k \in {} |-> << >>]

\* The texts from_json is applied to: one that is no JSON; a number; the
\* objects with any of the five fields and of a sixth key, "extra"; the
\* arrays of the first n of those six values.
JsonTexts ==
    {JsonText("malformed", NoKeys, << >>), JsonText("scalar", NoKeys, << >>)}
    \cup {JsonText("object", [k \in K |-> KeyValue(k, ds)], << >>) :
              K \in SUBSET (DefinitionFields \cup {"extra"}),
              ds \in DimensionArrays}
    \cup {JsonText("array", NoKeys,
                   [i \in 1..n |->
                       KeyValue((DefinitionFieldOrder \o <<"extra">>)[i], ds)]) :
              n \in 0..(Len(DefinitionFieldOrder) + 1),
              ds \in DimensionArrays}

JsonNames == {<<"v">>, <<"o", "v">>}

InitParse ==
    /\ Loaded(<<":memory:", "None">>, EmptyMap, FALSE)
    /\ NoReads
    /\ NoExpand
    /\ active = Threads
    /\ wanted = << >>
    /\ candidates = << >>
    /\ suggested = << >>
    /\ identifier = << >>
    /\ quoted = << >>
    /\ json_name \in {<<n>> : n \in JsonNames}
    /\ json_text \in {<<j>> : j \in JsonTexts}
    /\ parsed = << >>
    /\ NoOther

\* One call of from_json.
Parse ==
    /\ json_text # << >>
    /\ parsed = << >>
    /\ parsed' = <<from_json(json_name[1], json_text[1])>>
    /\ UNCHANGED <<catalogVars, expandVars, suggestVars, quoteVars,
                   json_name, json_text, otherVars>>

NextParse == Parse

SpecParse == InitParse /\ [][NextParse]_vars

\* ------------------------------------------------- quote_ident on its own
\* The longest identifier quote_ident is applied to.
MaxIdentLen == 4

IdentChars == {"a", "b", Quote}

Identifiers == BoundedSeq(IdentChars, MaxIdentLen)

InitQuote ==
    /\ Loaded(<<":memory:", "None">>, EmptyMap, FALSE)
    /\ NoReads
    /\ NoExpand
    /\ active = Threads
    /\ wanted = << >>
    /\ candidates = << >>
    /\ suggested = << >>
    /\ identifier \in {<<s>> : s \in Identifiers}
    /\ quoted = << >>
    /\ json_name = << >>
    /\ json_text = << >>
    /\ parsed = << >>
    /\ NoOther

\* One call of quote_ident.
QuoteIdent ==
    /\ identifier # << >>
    /\ quoted = << >>
    /\ quoted' = <<quote_ident(identifier[1])>>
    /\ UNCHANGED <<catalogVars, expandVars, suggestVars, identifier, parseVars,
                   otherVars>>

NextQuote == QuoteIdent

SpecQuote == InitQuote /\ [][NextQuote]_vars

\* ------------------------------------------------- invoke on several rows
\* The most rows of a chunk.
MaxChunk == 2

Rows == [name : Names, json : Texts]

Chunks == BoundedSeq(Rows, MaxChunk) \ {<< >>}

\* One session of an in-memory store or of a store with a writer, whose
\* define and drop are invoked on chunks, one invocation at a time.
InitChunk ==
    /\ \E d \in {<<":memory:", "None">>, <<"file", "Some">>} :
          Loaded(d, EmptyMap, FALSE)
    /\ NoReads
    /\ NoExpand
    /\ wanted = << >>
    /\ candidates = << >>
    /\ suggested = << >>
    /\ identifier = << >>
    /\ quoted = << >>
    /\ json_name = << >>
    /\ json_text = << >>
    /\ parsed = << >>
    /\ NoPath
    /\ NoChunk
    /\ NoAux
    /\ active = {1}

\* DuckDB calls invoke with a chunk of rows.
InvokeBegin(op, rows) ==
    /\ running
    /\ ops < MaxOps
    /\ input = << >> \/ outcome # "none"
    /\ ops' = ops + 1
    /\ input' = rows
    /\ invoked' = op
    /\ row' = 1
    /\ outcome' = "none"
    /\ map_before' = map
    /\ table_before' = table
    /\ UNCHANGED <<db_path, writer, running, map, table, sidecar, tmp, fd,
                   guard, chan, reply, writerAlive, pc, call, res, pre,
                   persisted, active, anyFail, resynced, restarts,
                   writerLog, loadVars, readVars>>
    /\ UNCHANGED <<expandVars, suggestVars, quoteVars, parseVars, pathVars,
                   auxVars>>

\* The loop has passed the row: the next one, or Ok(()) after the last.
NextRow ==
    /\ row' = row + 1
    /\ outcome' = IF row = Len(input) THEN "ok" ELSE "none"

\* The loop returns the error e at the row.
RowError(e) ==
    /\ row' = row
    /\ outcome' = e
    /\ UNCHANGED <<map, table>>

\* One pass of the loop of DefineSemanticView::invoke: from_json, the
\* duplicate check, writer.insert (the worker's INSERT and its reply, or a
\* failure of the statement), and the insertion into the map.
DefineRow ==
    /\ running
    /\ input # << >> /\ invoked = "define" /\ outcome = "none"
    /\ LET name == input[row].name
           json == input[row].json
       IN  IF ~from_json_ok(json) THEN RowError("invalid")
           ELSE IF contains_key(map, name) THEN RowError("exists")
           ELSE IF writer = "Some" /\ contains_key(table, name)
                THEN RowError("io")
           ELSE \/ /\ writer = "Some"
                   /\ RowError("io")
                \/ /\ table' = IF writer = "Some"
                               THEN insert(table, name, json) ELSE table
                   /\ map' = insert(map, name, json)
                   /\ NextRow
    /\ UNCHANGED <<db_path, writer, running, sidecar, tmp, fd,
                   guard, chan, reply, writerAlive, pc, call, res, pre,
                   persisted, active, anyFail, resynced, ops, restarts,
                   writerLog, loadVars, readVars>>
    /\ UNCHANGED <<input, invoked, map_before, table_before>>
    /\ UNCHANGED <<expandVars, suggestVars, quoteVars, parseVars, pathVars,
                   auxVars>>

\* One pass of the loop of DropSemanticView::invoke: the existence check,
\* writer.delete, and the removal from the map.
DropRow ==
    /\ running
    /\ input # << >> /\ invoked = "drop" /\ outcome = "none"
    /\ LET name == input[row].name
       IN  IF ~contains_key(map, name) THEN RowError("missing")
           ELSE \/ /\ writer = "Some"
                   /\ RowError("io")
                \/ /\ table' = IF writer = "Some"
                               THEN remove(table, name) ELSE table
                   /\ map' = remove(map, name)
                   /\ NextRow
    /\ UNCHANGED <<db_path, writer, running, sidecar, tmp, fd,
                   guard, chan, reply, writerAlive, pc, call, res, pre,
                   persisted, active, anyFail, resynced, ops, restarts,
                   writerLog, loadVars, readVars>>
    /\ UNCHANGED <<input, invoked, map_before, table_before>>
    /\ UNCHANGED <<expandVars, suggestVars, quoteVars, parseVars, pathVars,
                   auxVars>>

NextChunk ==
    \/ \E op \in {"define", "drop"}, rows \in Chunks : InvokeBegin(op, rows)
    \/ DefineRow
    \/ DropRow

SpecChunk == InitChunk /\ [][NextChunk]_vars

\* ------------------------------- the fixed-point loop of resolve_joins
\* The most joins a definition declares.
MaxJoins == 3

\* Declared joins whose ON texts mention each other in a cycle, one of them
\* in capitals.
JoinPool ==
    {Join(<<"p">>, <<"s", ".", "i", "=", "p", ".", "i">>),
     Join(<<"q">>, <<"p", ".", "u", "=", "q", ".", "u">>),
     Join(<<"r">>, <<"q", ".", "w", "=", "r", ".", "w">>),
     Join(<<"S">>, <<"R", ".", "i", "=", "S", ".", "i">>)}

\* The source tables of the resolved items, lowercased: needed is not empty
\* when the loop is entered.  x is the table of no declared join.
DirectNeeded ==
    {{<<"p">>}, {<<"q">>}, {<<"r">>}, {<<"s">>}, {<<"x">>},
     {<<"r">>, <<"x">>}, {<<"p">>, <<"r">>}}

InitJoins ==
    /\ Loaded(<<":memory:", "None">>, EmptyMap, FALSE)
    /\ NoReads
    /\ NoExpand
    /\ active = Threads
    /\ wanted = << >>
    /\ candidates = << >>
    /\ suggested = << >>
    /\ identifier = << >>
    /\ quoted = << >>
    /\ json_name = << >>
    /\ json_text = << >>
    /\ parsed = << >>
    /\ NoPath
    /\ NoChunk
    /\ described = << >>
    /\ NoExplain
    /\ declared_joins \in {<<js>> : js \in BoundedSeq(JoinPool, MaxJoins)}
    /\ needed_direct \in DirectNeeded
    /\ needed_now = needed_direct
    /\ pass_count = 0
    /\ loop_done = FALSE

\* One pass of `loop { .. }`: the scan of the joins, then the break when
\* nothing changed.
JoinPass ==
    /\ declared_joins # << >>
    /\ ~loop_done
    /\ LET r == join_pass(declared_joins[1], 1, 1, needed_now, FALSE)
       IN  /\ needed_now' = r.needed
           /\ loop_done' = ~r.changed
    /\ pass_count' = pass_count + 1
    /\ UNCHANGED <<catalogVars, expandVars, suggestVars, quoteVars, parseVars,
                   pathVars, chunkVars, declared_joins, needed_direct,
                   described, explainVars>>

NextJoins == JoinPass

\* resolve_joins runs on the thread that called expand, which the host runs.
SpecJoins == InitJoins /\ [][NextJoins]_vars /\ WF_vars(JoinPass)

\* ------------------------------------------ the fields describe reports
\* A serde_json::Value that describe looks at: Null, or an array and its
\* items.  to_string of Null is the text null, and of an array the text of
\* its items.
Null == [null |-> TRUE, items |-> << >>]

\* def["k"]: the value of the key, Null when the object has no such key or
\* the text is no JSON object.
index(json, k) ==
    IF json.kind = "object" /\ k \in DOMAIN json.object
    THEN [null |-> FALSE, items |-> json.object[k]]
    ELSE Null

\* serde_json::to_string(&def["k"]).unwrap_or_else(|_| "[]"): to_string of
\* a Value does not fail, so the text is that of the value.
field_text(json, k) == index(json, k)

\* def["base_table"].as_str().unwrap_or("")
base_table_text(json) ==
    IF index(json, "base_table").null THEN << >>
    ELSE index(json, "base_table").items

\* DescribeBindData of a view whose stored text is json.
describe_fields(name, json) ==
    [name |-> name,
     base_table |-> base_table_text(json),
     dimensions |-> field_text(json, "dimensions"),
     metrics |-> field_text(json, "metrics"),
     filters |-> field_text(json, "filters"),
     joins |-> field_text(json, "joins")]

\* The texts define_semantic_view stores: those from_json accepts.
StoredTexts == {j \in JsonTexts : deserialize_definition(j).ok}

InitDescribe ==
    /\ Loaded(<<":memory:", "None">>, EmptyMap, FALSE)
    /\ NoReads
    /\ NoExpand
    /\ active = Threads
    /\ wanted = << >>
    /\ candidates = << >>
    /\ suggested = << >>
    /\ identifier = << >>
    /\ quoted = << >>
    /\ json_name \in {<<n>> : n \in JsonNames}
    /\ json_text \in {<<j>> : j \in StoredTexts}
    /\ parsed = << >>
    /\ NoPath
    /\ NoChunk
    /\ NoJoinLoop
    /\ described = << >>
    /\ NoExplain

\* bind of describe_semantic_view on a view that is stored.
DescribeStored ==
    /\ json_text # << >>
    /\ described = << >>
    /\ described' = <<describe_fields(json_name[1], json_text[1])>>
    /\ UNCHANGED <<catalogVars, expandVars, suggestVars, quoteVars, parseVars,
                   pathVars, chunkVars, joinVars, explainVars>>

NextDescribe == DescribeStored

SpecDescribe == InitDescribe /\ [][NextDescribe]_vars

\* ------------------------------------- explain_semantic_view: the scan
\* let chunk_size = 2048;
chunk_size == 2048

\* The most calls of func made on one scan.
MaxCalls == 4

\* bind_data.lines.len(): no line, one, a full chunk, one more than a
\* chunk, one more than two chunks.  Line i is known by its position i.
LineCounts == {0, 1, chunk_size, chunk_size + 1, 2 * chunk_size + 1}

\* (start + chunk_size).min(total_lines)
chunk_end(from) ==
    IF from + chunk_size < total_lines THEN from + chunk_size ELSE total_lines

\* The chunk a call leaves in output: lines from + 1 .. to of the bind data;
\* from = to is set_len(0).
Chunk(t, from, to) == [by |-> t, from |-> from, to |-> to]

\* bind and init have returned: the lines are computed, done is false and
\* row_index is 0; DuckDB calls func from its threads.
InitExplain ==
    /\ Loaded(<<":memory:", "None">>, EmptyMap, FALSE)
    /\ NoReads
    /\ NoExpand
    /\ active = Threads
    /\ wanted = << >>
    /\ candidates = << >>
    /\ suggested = << >>
    /\ identifier = << >>
    /\ quoted = << >>
    /\ json_name = << >>
    /\ json_text = << >>
    /\ parsed = << >>
    /\ NoPath
    /\ NoChunk
    /\ NoJoinLoop
    /\ described = << >>
    /\ total_lines \in LineCounts
    /\ done = FALSE
    /\ row_index = 0
    /\ func_pc = [t \in Threads |-> "idle"]
    /\ start = [t \in Threads |-> 0]
    /\ emitted = << >>
    /\ calls = 0

ExplainRest ==
    UNCHANGED <<catalogVars, expandVars, suggestVars, quoteVars, parseVars,
                pathVars, chunkVars, joinVars, described, total_lines>>

\* func begins: init_data.done.load(Relaxed); when set, set_len(0).
FuncLoadDone(t) ==
    /\ func_pc[t] = "idle"
    /\ calls < MaxCalls
    /\ calls' = calls + 1
    /\ IF done
       THEN /\ emitted' = Append(emitted, Chunk(t, 0, 0))
            /\ func_pc' = func_pc
       ELSE /\ emitted' = emitted
            /\ func_pc' = [func_pc EXCEPT ![t] = "load_index"]
    /\ UNCHANGED <<done, row_index, start>>
    /\ ExplainRest

\* let start = init_data.row_index.load(Relaxed); past the last line the
\* call goes on to store done, otherwise it fills output with the lines
\* start .. end.
FuncLoadIndex(t) ==
    /\ func_pc[t] = "load_index"
    /\ start' = [start EXCEPT ![t] = row_index]
    /\ IF row_index >= total_lines
       THEN /\ emitted' = emitted
            /\ func_pc' = [func_pc EXCEPT ![t] = "store_done_empty"]
       ELSE /\ emitted' = Append(emitted,
                                 Chunk(t, row_index, chunk_end(row_index)))
            /\ func_pc' = [func_pc EXCEPT ![t] = "store_index"]
    /\ UNCHANGED <<done, row_index, calls>>
    /\ ExplainRest

\* init_data.done.store(true, Relaxed); output.set_len(0); return.
FuncStoreDoneEmpty(t) ==
    /\ func_pc[t] = "store_done_empty"
    /\ done' = TRUE
    /\ emitted' = Append(emitted, Chunk(t, start[t], start[t]))
    /\ func_pc' = [func_pc EXCEPT ![t] = "idle"]
    /\ UNCHANGED <<row_index, start, calls>>
    /\ ExplainRest

\* init_data.row_index.store(end, Relaxed)
FuncStoreIndex(t) ==
    /\ func_pc[t] = "store_index"
    /\ row_index' = chunk_end(start[t])
    /\ func_pc' = [func_pc EXCEPT ![t] =
                      IF chunk_end(start[t]) >= total_lines
                      THEN "store_done" ELSE "idle"]
    /\ UNCHANGED <<done, start, emitted, calls>>
    /\ ExplainRest

\* if end >= total_lines { init_data.done.store(true, Relaxed) }
FuncStoreDone(t) ==
    /\ func_pc[t] = "store_done"
    /\ done' = TRUE
    /\ func_pc' = [func_pc EXCEPT ![t] = "idle"]
    /\ UNCHANGED <<row_index, start, emitted, calls>>
    /\ ExplainRest

NextExplain ==
    \/ \E t \in Threads : FuncLoadDone(t)
    \/ \E t \in Threads : FuncLoadIndex(t)
    \/ \E t \in Threads : FuncStoreDoneEmpty(t)
    \/ \E t \in Threads : FuncStoreIndex(t)
    \/ \E t \in Threads : FuncStoreDone(t)

SpecExplain == InitExplain /\ [][NextExplain]_vars

\* ------------------------------------------------ sidecar_path on its own
\* A path is the sequence of the characters of its last component: the
\* functions below leave the parent directory alone.  The literals
\* "semantic_views" and "tmp" are one piece each.
Dot == "."

\* Path::file_name: none when the path ends in "." or "..", or is empty.
file_name(path) ==
    IF path \in {<< >>, <<Dot>>, <<Dot, Dot>>} THEN << >> ELSE <<path>>

\* The position of the last Dot of file, 0 when it has none.
last_dot(file) ==
    LET dots == {i \in 1..Len(file) : file[i] = Dot}
    IN  IF dots = {} THEN 0 ELSE CHOOSE i \in dots : \A j \in dots : j <= i

\* rsplit_file_at_dot: what stands before and after the last Dot; a name that
\* only starts with its one Dot is kept whole.
rsplit_file_at_dot(file) ==
    LET i == last_dot(file)
    IN  IF i = 0 THEN [before |-> << >>, after |-> <<file>>]
        ELSE IF i = 1 THEN [before |-> <<file>>, after |-> << >>]
        ELSE [before |-> <<SubSeq(file, 1, i - 1)>>,
              after |-> <<SubSeq(file, i + 1, Len(file))>>]

\* Path::extension: before.and(after).
extension(path) ==
    IF file_name(path) = << >> THEN << >>
    ELSE LET split == rsplit_file_at_dot(file_name(path)[1])
         IN  IF split.before = << >> THEN << >> ELSE split.after

\* Path::file_stem: before.or(after).
file_stem(path) ==
    IF file_name(path) = << >> THEN << >>
    ELSE LET split == rsplit_file_at_dot(file_name(path)[1])
         IN  IF split.before # << >> THEN split.before ELSE split.after

\* PathBuf::set_extension: nothing without a file name; otherwise the path is
\* cut after its stem, and a Dot and the extension are pushed.
set_extension(path, ext) ==
    IF file_stem(path) = << >> THEN path
    ELSE file_stem(path)[1] \o (IF ext = << >> THEN << >> ELSE <<Dot>> \o ext)

with_extension(path, ext) == set_extension(path, ext)

sidecar_path_replacing(path) == set_extension(path, <<"semantic_views">>)

sidecar_path(path) ==
    LET ext == IF extension(path) # << >>
               THEN extension(path)[1] \o <<Dot, "semantic_views">>
               ELSE <<"semantic_views">>
    IN  set_extension(path, ext)

\* The longest file name of a database.
MaxPathLen == 4

PathChars == {"t", Dot, "tmp", "semantic_views"}

\* The paths a database file can have: "." and ".." name directories.
StorePaths ==
    {f \in BoundedSeq(PathChars, MaxPathLen) : file_name(f) # << >>}

InitPath ==
    /\ Loaded(<<":memory:", "None">>, EmptyMap, FALSE)
    /\ NoReads
    /\ NoExpand
    /\ active = Threads
    /\ wanted = << >>
    /\ candidates = << >>
    /\ suggested = << >>
    /\ identifier = << >>
    /\ quoted = << >>
    /\ json_name = << >>
    /\ json_text = << >>
    /\ parsed = << >>
    /\ store_path \in {<<f>> : f \in StorePaths}
    /\ sidecar_file = << >>
    /\ tmp_file = << >>
    /\ NoChunk
    /\ NoAux

\* The two paths write_sidecar computes before it touches a file.
SidecarPaths ==
    /\ store_path # << >>
    /\ sidecar_file = << >>
    /\ sidecar_file' = <<sidecar_path(store_path[1])>>
    /\ tmp_file' = <<with_extension(sidecar_path(store_path[1]), <<"tmp">>)>>
    /\ UNCHANGED <<catalogVars, expandVars, suggestVars, quoteVars, parseVars,
                   store_path, chunkVars, auxVars>>

NextPath == SidecarPaths

SpecPath == InitPath /\ [][NextPath]_vars

\* =================================================================== claims
\* The step with which the call of thread t returns to its caller.
Completes(t) == pc[t] # "idle" /\ pc'[t] = "idle" /\ running'

IsInsert(t) == call[t].op \in {"define", "catalog_insert"}

IsDelete(t) == call[t].op \in {"drop", "catalog_delete"}

\* The map the next extension load would build from what is on disk now.
Reloaded == init_catalog(schema, table, sidecar, db_path).map

\* The call of t is, or waits for, its durable write.
InDurableWrite(t) == pc[t] \in {"def_await", "drop_await", "ws_write", "ws_rename"}

\* The step of t that mutates the map.
MutatesMap(t) ==
    /\ pc[t] \in {"def_write", "drop_write", "ci_write", "cd_write"}
    /\ pc'[t] # pc[t]
    /\ running'

\* C1 as stated: in a sequence of calls (no two overlap), an insert of a
\* valid definition succeeds if and only if the name was not a key of the map
\* when the call began, and after a success the map holds the submitted text.
C1_InsertIffAbsent ==
    [][\A t \in Threads :
          (Completes(t) /\ IsInsert(t)) =>
              /\ (res'[t] = "ok") <=> ~pre[t]
              /\ res'[t] = "ok" =>
                    /\ call[t].name \in DOMAIN map'
                    /\ map'[call[t].name] = call[t].json]_vars

\* C1 amended: the insert fails with "already exists" if and only if the name
\* was a key when the call began; when the name was absent it succeeds unless
\* the durable write (writer or sidecar) fails, and then returns that error;
\* on a store without durability layer it succeeds iff the name was absent;
\* after a success the map holds the submitted text.
C1_InsertIffAbsentAndPersisted ==
    [][\A t \in Threads :
          (Completes(t) /\ IsInsert(t)) =>
              /\ (res'[t] = "exists") <=> pre[t]
              /\ (res'[t] \in {"ok", "io", "gone"}) <=> ~pre[t]
              /\ db_path = ":memory:" => res'[t] \in {"ok", "exists"}
              /\ res'[t] = "ok" =>
                    /\ call[t].name \in DOMAIN map'
                    /\ map'[call[t].name] = call[t].json]_vars

\* An insert through the writer has returned Ok and the map holds an entry;
\* before it, an insert has failed in the durable write.
C1_Witness ==
    /\ writer = "Some"
    /\ anyFail
    /\ map # EmptyMap
    /\ \E t \in Threads : Idle(t) /\ res[t] = "ok" /\ call[t].op = "define"

\* C2 as stated: in a sequence of calls, a delete succeeds if and only if the
\* name was a key of the map when the call began; after a success the name is
\* absent, and an absent name becomes present only by an insert of that name.
C2_DeleteIffPresent ==
    [][/\ \A t \in Threads :
             (Completes(t) /\ IsDelete(t)) =>
                 /\ (res'[t] = "ok") <=> pre[t]
                 /\ res'[t] = "ok" => call[t].name \notin DOMAIN map'
       /\ \A n \in Names :
             (running /\ n \notin DOMAIN map /\ n \in DOMAIN map') =>
                 \E t \in Threads : MutatesMap(t) /\ IsInsert(t) /\ call[t].name = n]_vars

\* C2 amended: the delete fails with "does not exist" if and only if the name
\* was not a key when the call began; when the name was present it succeeds
\* unless the durable write fails, and then returns that error; after a
\* success the name is absent until an insert of that name.
C2_DeleteIffPresentAndPersisted ==
    [][/\ \A t \in Threads :
             (Completes(t) /\ IsDelete(t)) =>
                 /\ (res'[t] = "missing") <=> ~pre[t]
                 /\ (res'[t] \in {"ok", "io", "gone"}) <=> pre[t]
                 /\ db_path = ":memory:" => res'[t] \in {"ok", "missing"}
                 /\ res'[t] = "ok" => call[t].name \notin DOMAIN map'
       /\ \A n \in Names :
             (running /\ n \notin DOMAIN map /\ n \in DOMAIN map') =>
                 \E t \in Threads : MutatesMap(t) /\ IsInsert(t) /\ call[t].name = n]_vars

\* A delete through the writer has returned Ok and the map is empty again;
\* before it, a call has failed in the durable write.
C2_Witness ==
    /\ writer = "Some"
    /\ anyFail
    /\ map = EmptyMap
    /\ \E t \in Threads : Idle(t) /\ res[t] = "ok" /\ call[t].op = "drop"

\* C3 as stated: on a file-backed store the map is mutated only after the
\* durability layer has reported success for that operation, and a call that
\* returns a durable-write error leaves the name as it was before the call.
C3_FailAtomic ==
    [][\A t \in Threads :
          /\ (MutatesMap(t) /\ db_path = "file") => persisted[t]
          /\ (Completes(t) /\ res'[t] \in {"io", "gone"}) =>
                ((call[t].name \in DOMAIN map') <=> pre[t])]_vars

\* C4 as stated: no step replaces the text stored under a name that is
\* present in the map.
C4_NeverMutatedInPlace ==
    [][\A n \in Names :
          (n \in DOMAIN map /\ n \in DOMAIN map') => map'[n] = map[n]]_vars

\* C5 as stated: on a file-backed store, after a sequence of calls none of
\* which failed in its durable write, the map the next init would load is
\* the in-memory map.
C5_ReloadEqualsMap ==
    (/\ running
     /\ db_path = "file"
      /\ ~anyFail
     /\ \A t \in Threads : Idle(t)) => Reloaded = map

\* C6 as stated: when an insert or delete returns success on a file-backed
\* store (calls not overlapping), the map an init after a crash at that
\* point would load reflects the operation.
C6_AckImpliesDurable ==
    [][\A t \in Threads :
          (Completes(t) /\ res'[t] = "ok" /\ db_path = "file") =>
              LET m == init_catalog(schema', table', sidecar', db_path).map
              IN IF IsInsert(t)
                 THEN call[t].name \in DOMAIN m /\ m[call[t].name] = call[t].json
                 ELSE call[t].name \notin DOMAIN m]_vars

C8_SidecarAlwaysComplete ==
    sidecar = NoFile
    \/ (WellFormed(sidecar) /\ to_string(from_str(sidecar)) = sidecar)

\* C9 as stated: a step of write_sidecar other than its successful rename,
\* and a crash at any point of it, leaves the file at the sidecar path as
\* it was.
C9_FailedWriteLeavesSidecar ==
    [][\A t \in Threads :
          (/\ pc[t] \in {"ws_create", "ws_write", "ws_rename"}
           /\ pc'[t] # pc[t]
           /\ ~(pc[t] = "ws_rename" /\ running' /\ res'[t] = "ok")) =>
              sidecar' = sidecar]_vars

\* C10 as stated: a caller that performs or waits for its durable write
\* holds no guard of the map.
C10_NoLockDuringDurableWrite ==
    \A t \in Threads : InDurableWrite(t) => guard[t] = "none"

\* The statement a message asks the worker to run, applied to the rows.
ApplyMessage(rows, m) ==
    IF m.op = "Insert" THEN insert(rows, m.name, m.json) ELSE remove(rows, m.name)

\* The rows after the acknowledged messages from position i on are applied
\* in the order they were enqueued.
RECURSIVE Replay(_, _)
Replay(rows, i) ==
    IF i > Len(sent) THEN rows
    ELSE Replay(IF i \in acked THEN ApplyMessage(rows, sent[i]) ELSE rows, i + 1)

\* C11: the rows of the table are at every moment those obtained by applying
\* to the rows found at load the operations the writer has acknowledged, one
\* after the other in the order their messages were enqueued, whenever the
\* callers go on to take the write guard of the map.
C11_DurableIsFifoReplay ==
    tracing => table = Replay(base, 1)

\* Two callers wait on their replies at once: the insert of a name enqueued
\* first and the delete of that name enqueued second are both acknowledged.
C11_Witness ==
    /\ tracing
    /\ \E i, k \in acked :
          /\ i < k
          /\ sent[i].op = "Insert" /\ sent[k].op = "Delete"
          /\ sent[i].name = sent[k].name
          /\ sent[i].from # sent[k].from
          /\ pc[sent[i].from] = "def_await" /\ reply[sent[i].from] = "ok"
          /\ pc[sent[k].from] = "drop_await" /\ reply[sent[k].from] = "ok"

PersistPcs == {"def_persist", "drop_persist"}

AwaitPcs == {"def_await", "drop_await"}

\* The position in sent of the last message thread t enqueued.
LastSent(t) ==
    CHOOSE i \in 1..Len(sent) :
        /\ sent[i].from = t
        /\ \A k \in 1..Len(sent) : sent[k].from = t => k <= i

\* C12: a caller blocked on the reply of the writer leaves that wait (with
\* the worker and the callers scheduled fairly); a request made to a worker
\* that has exited, or pending when it exits, returns WriterGone and leaves
\* the map as it was; a reply Ok is the acknowledgement of the caller's own
\* message.
C12_RequestNeverHangs ==
    /\ \A t \in Threads : (pc[t] \in AwaitPcs) ~> (pc[t] \notin AwaitPcs)
    /\ [][\A t \in Threads :
            /\ (pc[t] \in PersistPcs /\ pc'[t] # pc[t] /\ ~writerAlive) =>
                   (Completes(t) /\ res'[t] = "gone")
            /\ (pc[t] \in AwaitPcs /\ pc'[t] # pc[t] /\ LastSent(t) \notin acked) =>
                   (Completes(t) /\ res'[t] \in {"gone", "io"})
            /\ (Completes(t) /\ res'[t] = "gone") =>
                   (~writerAlive /\ map' = map)
            /\ (pc[t] \in AwaitPcs /\ pc'[t] # pc[t] /\ ~Completes(t)) =>
                   /\ LastSent(t) \in acked
                   /\ sent[LastSent(t)].name = call[t].name
                   /\ sent[LastSent(t)].json = call[t].json]_vars

\* The worker exited while the request of a caller was pending, and the
\* caller has returned WriterGone.
C12_Witness ==
    /\ tracing
    /\ ~writerAlive
    /\ Len(sent) = 1
    /\ acked = {}
    /\ \E t \in Threads : Idle(t) /\ res[t] = "gone" /\ sent[1].from = t

\* C13: init_catalog called on the store a first call has left (nothing
\* mutated in between) raises no error, returns the map the first call
\* returned, and leaves in the table the rows the first call left; a catalog
\* loaded twice in succession is what a further call would load.
C13_InitIdempotent ==
    LET r1 == init_catalog(schema, table, sidecar, db_path)
        r2 == init_catalog(r1.schema, r1.table, sidecar, db_path)
    IN /\ ~r1.err => (~r2.err /\ r2.map = r1.map /\ r2.table = r1.table)
       /\ (running /\ inits >= 2) =>
             (~loadErr /\ ~r1.err /\ r1.map = map /\ r1.table = table)

\* init_catalog has run twice in succession on a store whose sidecar holds a
\* view: both runs took the sidecar and wrote its entries into the table.
C13_Witness ==
    /\ running
    /\ inits >= 2
    /\ db_path = "file"
    /\ read_sidecar(sidecar) # EmptyMap
    /\ map = read_sidecar(sidecar)
    /\ table = map

\* C14: when write_sidecar returns Ok for a catalog state holding the map m
\* (the empty map included), read_sidecar on the same path returns m: the
\* same names, the same text under each name.
C14_SidecarRoundTrip ==
    [][\A t \in Threads :
          (pc[t] = "ws_rename" /\ Completes(t) /\ res'[t] = "ok") =>
              /\ sidecar' # NoFile
              /\ read_sidecar(sidecar') = map']_vars

\* write_sidecar has returned Ok for the empty map, after the last view was
\* deleted: the file is the serialization of the empty map.
C14_Witness ==
    /\ db_path = "file"
    /\ map = EmptyMap
    /\ sidecar = << OpenTok, CloseTok >>
    /\ \E t \in Threads :
          Idle(t) /\ res[t] = "ok" /\ call[t].op = "catalog_delete"

\* C15: an insert whose text fails validation returns the validation error
\* without another step; the map, the table, the sidecar and the writer's
\* channel are left as they were, whether the name is present or not; a call
\* that has got as far as the existence check holds a text that is valid, and
\* so does every entry of the map and every row of the table.
C15_InvalidJsonLeavesState ==
    /\ [][(ops' = ops + 1 /\ pc' = pc) =>
             /\ \E t \in Threads : /\ res'[t] = "invalid"
                                   /\ call'[t].op \in {"define", "catalog_insert"}
             /\ UNCHANGED <<map, table, sidecar, tmp, chan, guard>>]_vars
    /\ [](/\ \A t \in Threads :
               (pc[t] # "idle" /\ IsInsert(t)) => call[t].json \in Jsons
          /\ \A n \in DOMAIN map : map[n] \in Jsons
          /\ \A n \in DOMAIN table : table[n] \in Jsons)

\* An insert with a text that fails validation has returned the validation
\* error while every name, its own included, is present in the map.
C15_Witness ==
    /\ DOMAIN map = Names
    /\ \E t \in Threads : Idle(t) /\ res[t] = "invalid" /\ IsInsert(t)

\* C16: an insert that fails with "already exists" and a delete that fails
\* with "does not exist" return from the existence check, the first step
\* after the call began; neither that step nor the beginning of the call
\* changes the map, the table, the sidecar or the writer's channel, so the
\* name is present with its text, or absent, as before the call.
C16_ExistenceErrorNoEffect ==
    [][/\ (ops' = ops + 1) => UNCHANGED <<map, table, sidecar, tmp, chan>>
       /\ \A t \in Threads :
             (Completes(t) /\ res'[t] \in {"exists", "missing"}) =>
                 /\ UNCHANGED <<map, table, sidecar, tmp, chan>>
                 /\ pc[t] \in {"def_check", "drop_check", "ci_check", "cd_check"}
                 /\ res'[t] = "exists" =>
                       (IsInsert(t) /\ pre[t] /\ call[t].name \in DOMAIN map')
                 /\ res'[t] = "missing" =>
                       (IsDelete(t) /\ ~pre[t] /\ call[t].name \notin DOMAIN map')]_vars

\* An insert of the one name that is present has failed with "already
\* exists", and the map holds that entry and nothing else.
C16_Witness ==
    \E t \in Threads, n \in Names :
        /\ Idle(t) /\ res[t] = "exists"
        /\ call[t].op = "catalog_insert"
        /\ DOMAIN map = {n}
        /\ map[n] \in Jsons

\* C17: in a store reached by loads, inserts and deletes made one at a time,
\* describe of a name that is in the map succeeds and describe of a name that
\* is not fails with "does not exist"; the bind of list returns no error and
\* its scan ends with success: no entry of the map makes a read fail.
C17_ReadsFailOnlyNotFound ==
    [][\A t \in active :
          /\ (ops' = ops + 1 /\ pc' = pc /\ call'[t].op = "describe") =>
                LET n == call'[t].name
                IN /\ n \in DOMAIN map => res'[t] = "ok"
                   /\ n \notin DOMAIN map => res'[t] = "missing"
          /\ (~listBind.bound /\ listBind'.bound) => ~listBind'.err
          /\ (Completes(t) /\ call[t].op = "list") => res'[t] = "ok"]_vars

\* After a restart that loaded the map from the sidecar, describe of a name
\* in the map has succeeded.
C17_Witness ==
    /\ running
    /\ restarts >= 1
    /\ read_sidecar(sidecar) # EmptyMap
    /\ map = read_sidecar(sidecar)
    /\ \E t \in Threads :
          /\ Idle(t) /\ call[t].op = "describe" /\ res[t] = "ok"
          /\ call[t].name \in DOMAIN map

has_piece(text, piece) == \E i \in DOMAIN text : text[i] = piece

\* Every requested dimension is declared and none is requested twice.
DimensionsResolve == resolve_dimensions(view_name, def[1], req[1]).ok

C20_DimensionsOnlySelectDistinct ==
    (/\ result # << >>
     /\ req[1].metrics = << >>
     /\ req[1].dimensions # << >>
     /\ DimensionsResolve) =>
        /\ result[1].ok
        /\ has_piece(result[1].sql, "\nSELECT DISTINCT\n")
        /\ ~has_piece(result[1].sql, "\nGROUP BY\n")

\* The place of the first piece of text equal to piece, 0 when there is none.
position(text, piece) ==
    IF has_piece(text, piece)
    THEN CHOOSE i \in DOMAIN text :
             text[i] = piece /\ \A j \in 1..(i - 1) : text[j] # piece
    ELSE 0

\* The part of text between the pieces a and b.
between(text, a, b) == SubSeq(text, position(text, a) + 1, position(text, b) - 1)

\* The part of text that follows the piece a.
after(text, a) == SubSeq(text, position(text, a) + 1, Len(text))

\* Every name of names equals a declared name but for case, and no two of them
\* are equal but for case.
NamesValid(declared, names) ==
    /\ \A i \in DOMAIN names : \E k \in DOMAIN declared :
           to_ascii_lowercase(declared[k].name) = to_ascii_lowercase(names[i])
    /\ \A i, j \in DOMAIN names :
           i # j => to_ascii_lowercase(names[i]) # to_ascii_lowercase(names[j])

\* The first declared item whose name equals name but for case.
DeclaredItem(declared, name) ==
    LET same(k) ==
            to_ascii_lowercase(declared[k].name) = to_ascii_lowercase(name)
    IN  declared[CHOOSE k \in DOMAIN declared :
                     same(k) /\ \A j \in 1..(k - 1) : ~same(j)]

\* The request names declared items only, none twice, and a metric.
RequestValid ==
    /\ req[1].metrics # << >>
    /\ NamesValid(def[1].dimensions, req[1].dimensions)
    /\ NamesValid(def[1].metrics, req[1].metrics)

RequestedDims ==
    [i \in DOMAIN req[1].dimensions |->
        DeclaredItem(def[1].dimensions, req[1].dimensions[i])]

RequestedMets ==
    [i \in DOMAIN req[1].metrics |->
        DeclaredItem(def[1].metrics, req[1].metrics[i])]

EmitsJoin(text, jn) ==
    LET clause == <<"\n    JOIN ">> \o quote_ident(jn.table)
                  \o <<" ON ">> \o jn.on
    IN  \E i \in 1..(Len(text) - Len(clause) + 1) :
            SubSeq(text, i, i + Len(clause) - 1) = clause

\* The source tables, lowercased, of the items the request names.
DirectTables ==
    LET items == RequestedDims \o RequestedMets
    IN  {to_ascii_lowercase(items[i].source_table[1]) :
             i \in {i \in DOMAIN items : items[i].source_table # << >>}}

JoinTables ==
    {to_ascii_lowercase(def[1].joins[i].table) : i \in DOMAIN def[1].joins}

\* S holds the directly required tables, and with the table of a join every
\* other declared join table that the join's ON text mentions.
JoinClosed(S) ==
    /\ DirectTables \subseteq S
    /\ \A i, j \in DOMAIN def[1].joins :
           LET a == to_ascii_lowercase(def[1].joins[i].table)
               b == to_ascii_lowercase(def[1].joins[j].table)
           IN  (/\ a \in S
                /\ b # a
                /\ contains(to_ascii_lowercase(def[1].joins[i].on), b))
               => b \in S

\* The least closed set: what every closed set holds.
LeastNeeded ==
    {x \in DirectTables \cup JoinTables :
        \A S \in SUBSET (DirectTables \cup JoinTables) : JoinClosed(S) => x \in S}

\* C22: in every successful expansion a declared join is emitted iff its
\* table, lowercased, is in the least set that holds the source tables of the
\* resolved items and is closed under 'the ON text of a join in the set
\* mentions another declared join's table'; with no source table there is no
\* JOIN at all.
C22_JoinIffNeeded ==
    (result # << >> /\ result[1].ok) =>
        /\ \A i \in DOMAIN def[1].joins :
               EmitsJoin(result[1].sql, def[1].joins[i])
                   <=> to_ascii_lowercase(def[1].joins[i].table) \in LeastNeeded
        /\ DirectTables = {} => ~has_piece(result[1].sql, "\n    JOIN ")

\* expand has returned SQL with the three joins of a chain, of which the
\* requested items name the last only.
C22_Witness ==
    /\ result # << >>
    /\ result[1].ok
    /\ Len(def[1].joins) = 3
    /\ DirectTables \cap JoinTables = {<<"r">>}
    /\ \A i \in DOMAIN def[1].joins : EmitsJoin(result[1].sql, def[1].joins[i])

\* Where the JOIN clause of the declared join jn begins in text.
JoinPosition(text, jn) ==
    LET clause == <<"\n    JOIN ">> \o quote_ident(jn.table)
                  \o <<" ON ">> \o jn.on
    IN  CHOOSE i \in 1..(Len(text) - Len(clause) + 1) :
            SubSeq(text, i, i + Len(clause) - 1) = clause

\* C23: the joins expand emits are in the order in which the definition
\* declares them, whatever the order in which they were found to be needed.
C23_JoinsInDeclarationOrder ==
    (result # << >> /\ result[1].ok) =>
        \A i, j \in DOMAIN def[1].joins :
            (/\ i < j
             /\ EmitsJoin(result[1].sql, def[1].joins[i])
             /\ EmitsJoin(result[1].sql, def[1].joins[j]))
            => JoinPosition(result[1].sql, def[1].joins[i])
                   < JoinPosition(result[1].sql, def[1].joins[j])

\* expand has returned SQL with two joins, of which the requested items name
\* the one declared last, the other being found through its ON text.
C23_Witness ==
    /\ result # << >>
    /\ result[1].ok
    /\ Len(def[1].joins) = 2
    /\ DirectTables = {to_ascii_lowercase(def[1].joins[2].table)}
    /\ EmitsJoin(result[1].sql, def[1].joins[1])
    /\ EmitsJoin(result[1].sql, def[1].joins[2])

\* name equals no declared name but for case.
Undeclared(declared, name) ==
    \A k \in DOMAIN declared :
        to_ascii_lowercase(declared[k].name) # to_ascii_lowercase(name)

DeclaredNames(declared) == [k \in DOMAIN declared |-> declared[k].name]

\* The result is the error of the given kind for name, with all the declared
\* names and the suggestion suggest_closest computes from them.
ReportsUnknown(kind, declared, name) ==
    /\ ~result[1].ok
    /\ result[1].err.kind = kind
    /\ result[1].err.name = name
    /\ result[1].err.available = DeclaredNames(declared)
    /\ result[1].err.suggestion
           = suggest_closest(name, DeclaredNames(declared))

\* C25 as stated: when a requested dimension (resp. metric) name matches no
\* declared name, expand fails with UnknownDimension (resp. UnknownMetric)
\* carrying a requested name that matches none, the declared names in
\* declaration order and the suggestion of suggest_closest.
C25_UnknownNameReported ==
    result # << >> =>
        /\ (\E i \in DOMAIN req[1].dimensions :
                Undeclared(def[1].dimensions, req[1].dimensions[i]))
           => \E i \in DOMAIN req[1].dimensions :
                  /\ Undeclared(def[1].dimensions, req[1].dimensions[i])
                  /\ ReportsUnknown("UnknownDimension", def[1].dimensions,
                                    req[1].dimensions[i])
        /\ (\E i \in DOMAIN req[1].metrics :
                Undeclared(def[1].metrics, req[1].metrics[i]))
           => \E i \in DOMAIN req[1].metrics :
                  /\ Undeclared(def[1].metrics, req[1].metrics[i])
                  /\ ReportsUnknown("UnknownMetric", def[1].metrics,
                                    req[1].metrics[i])

\* C25 as amended: when the metric list is not empty and a requested
\* dimension (resp. metric) name matches no declared name, while every name
\* requested before it (for a metric: every requested dimension and every
\* earlier metric) is declared and not repeated, expand fails with
\* UnknownDimension (resp. UnknownMetric) carrying that name as requested, the
\* declared names in declaration order and the suggestion of suggest_closest.
C25_FirstUnknownNameReported ==
    (result # << >> /\ req[1].metrics # << >>) =>
        /\ \A i \in DOMAIN req[1].dimensions :
               (/\ Undeclared(def[1].dimensions, req[1].dimensions[i])
                /\ NamesValid(def[1].dimensions,
                              SubSeq(req[1].dimensions, 1, i - 1)))
               => ReportsUnknown("UnknownDimension", def[1].dimensions,
                                 req[1].dimensions[i])
        /\ \A i \in DOMAIN req[1].metrics :
               (/\ Undeclared(def[1].metrics, req[1].metrics[i])
                /\ NamesValid(def[1].dimensions, req[1].dimensions)
                /\ NamesValid(def[1].metrics,
                              SubSeq(req[1].metrics, 1, i - 1)))
               => ReportsUnknown("UnknownMetric", def[1].metrics,
                                 req[1].metrics[i])

\* expand has failed on the second metric of a request, a name in capitals
\* that is close to a declared metric, after it resolved a dimension and the
\* first metric.
C25_Witness ==
    /\ result # << >>
    /\ req[1].dimensions # << >>
    /\ Len(req[1].metrics) = 2
    /\ req[1].metrics[2] = <<"A">>
    /\ ~result[1].ok
    /\ result[1].err.kind = "UnknownMetric"
    /\ result[1].err.name = <<"A">>
    /\ result[1].err.suggestion # << >>

\* The edit distance between the lowercased name looked for and the
\* lowercased i-th candidate.
CandidateDist(i) ==
    levenshtein(to_ascii_lowercase(wanted[1]),
                to_ascii_lowercase(candidates[1][i]))

CloseCandidates == {i \in DOMAIN candidates[1] : CandidateDist(i) <= 3}

\* C26: suggest_closest returns, in its original casing, the candidate at the
\* least case-insensitive edit distance from the query if that distance is at
\* most 3, the first such candidate in list order when several are at that
\* distance, and none when no candidate is within distance 3.
C26_SuggestClosestFirstMinimal ==
    suggested # << >> =>
        IF CloseCandidates = {}
        THEN suggested[1] = << >>
        ELSE \E k \in CloseCandidates :
                 /\ \A j \in CloseCandidates :
                        \/ CandidateDist(j) > CandidateDist(k)
                        \/ CandidateDist(j) = CandidateDist(k) /\ j >= k
                 /\ suggested[1] = <<candidates[1][k]>>

\* suggest_closest has returned the first of two different candidates that
\* are at the same distance from the query, a candidate with a capital.
C26_Witness ==
    /\ suggested # << >>
    /\ Len(candidates[1]) = 2
    /\ candidates[1][1] # candidates[1][2]
    /\ CandidateDist(1) = CandidateDist(2)
    /\ CandidateDist(1) > 0
    /\ candidates[1][1] = <<"A", "b">>
    /\ suggested[1] = <<candidates[1][1]>>

\* C27: in every successful expansion, whatever is requested, the base CTE
\* has a WHERE clause made of every filter of the definition, each in
\* parentheses, joined by AND in declaration order, if the definition has a
\* filter, and no WHERE clause if it has none.
C27_FiltersAlwaysInCte ==
    (result # << >> /\ result[1].ok) =>
        LET sql == result[1].sql
            wrapped == [i \in DOMAIN def[1].filters |->
                           <<"(">> \o def[1].filters[i] \o <<")">>]
        IN  IF def[1].filters = << >>
            THEN ~has_piece(sql, "\n    WHERE ")
            ELSE /\ has_piece(sql, "\n    WHERE ")
                 /\ position(sql, "\n    WHERE ") < position(sql, "\n)")
                 /\ between(sql, "\n    WHERE ", "\n)")
                        = join(wrapped, <<" AND ">>)

\* expand has returned SQL with a WHERE clause for a definition with two
\* filters and a request that names no dimension.
C27_Witness ==
    /\ result # << >>
    /\ result[1].ok
    /\ Len(def[1].filters) = 2
    /\ req[1].dimensions = << >>
    /\ has_piece(result[1].sql, "\n    WHERE ")

\* The text is a JSON object.
IsObject == json_text[1].kind = "object"

TopLevel == json_text[1].object

\* The object lacks base_table, dimensions or metrics.
LacksRequired == ~({"base_table", "dimensions", "metrics"} \subseteq DOMAIN TopLevel)

\* The object has a key that is none of the five fields of a definition.
UnrecognizedAtTop ==
    DOMAIN TopLevel
        \ {"base_table", "dimensions", "metrics", "filters", "joins"} # {}

\* An object of the array at key k has a key outside fields.
UnrecognizedIn(k, fields) ==
    /\ k \in DOMAIN TopLevel
    /\ \E i \in DOMAIN TopLevel[k] : DOMAIN TopLevel[k][i] \ fields # {}

UnrecognizedNested ==
    \/ UnrecognizedIn("dimensions", {"name", "expr", "source_table"})
    \/ UnrecognizedIn("metrics", {"name", "expr", "source_table"})
    \/ UnrecognizedIn("joins", {"table", "on"})

\* from_json failed with a message that holds the view name.
FailsNamingView ==
    /\ ~parsed[1].ok
    /\ contains(parsed[1].msg, json_name[1])

\* On success a definition without filters or joins has the empty list there.
DefaultsEmpty ==
    (parsed[1].ok /\ IsObject) =>
        /\ "filters" \notin DOMAIN TopLevel => parsed[1].value.filters = << >>
        /\ "joins" \notin DOMAIN TopLevel => parsed[1].value.joins = << >>

\* C28 as stated: from_json fails, with a message that holds the view name,
\* whenever the text is malformed, or is an object that lacks base_table,
\* dimensions or metrics or that contains any unrecognized field, at its top
\* level or in one of its items; when it succeeds, absent filters and joins
\* are the empty list.
C28_ParseStrict ==
    parsed # << >> =>
        /\ (\/ json_text[1].kind = "malformed"
            \/ IsObject /\ LacksRequired
            \/ IsObject /\ UnrecognizedAtTop
            \/ IsObject /\ UnrecognizedNested) => FailsNamingView
        /\ DefaultsEmpty

\* C28 as amended: from_json fails, with a message that holds the view name,
\* whenever the text is malformed, or is a JSON object that lacks base_table,
\* dimensions or metrics or that has an unrecognized key at its top level;
\* when it succeeds on an object, absent filters and joins are the empty list.
C28_ParseStrictAtTopLevel ==
    parsed # << >> =>
        /\ (\/ json_text[1].kind = "malformed"
            \/ IsObject /\ LacksRequired
            \/ IsObject /\ UnrecognizedAtTop) => FailsNamingView
        /\ DefaultsEmpty

\* from_json has rejected an object that has the three required fields, well
\* formed, and one more key at its top level.
C28_Witness ==
    /\ parsed # << >>
    /\ IsObject
    /\ DOMAIN TopLevel = {"base_table", "dimensions", "metrics", "extra"}
    /\ ~UnrecognizedNested
    /\ TopLevel.dimensions # << >>
    /\ ItemRequired \subseteq DOMAIN TopLevel.dimensions[1]
    /\ FailsNamingView

\* The number of double quotes among the first n characters of s.
QuotesBefore(s, n) == Cardinality({i \in 1..n : s[i] = Quote})

\* Reading text from the left, every pair of double quotes taken as one.
RECURSIVE undouble(_)
undouble(text) ==
    IF Len(text) = 0 THEN << >>
    ELSE IF Len(text) >= 2 /\ text[1] = Quote /\ text[2] = Quote
    THEN <<Quote>> \o undouble(SubSeq(text, 3, Len(text)))
    ELSE <<text[1]>> \o undouble(Tail(text))

\* C29: quote_ident(s) is s with every double quote doubled, between one pair
\* of double quotes, and s is got back from it by removing the outer quotes
\* and taking every pair of inner quotes as one: the mapping is injective.
C29_QuoteIdentDoublesAndInverts ==
    quoted # << >> =>
        LET s == identifier[1]
            q == quoted[1]
            inner == SubSeq(q, 2, Len(q) - 1)
        IN  /\ Len(q) = Len(s) + QuotesBefore(s, Len(s)) + 2
            /\ q[1] = Quote
            /\ q[Len(q)] = Quote
            /\ \A i \in DOMAIN s :
                   /\ inner[i + QuotesBefore(s, i - 1)] = s[i]
                   /\ s[i] = Quote => inner[i + QuotesBefore(s, i - 1) + 1] = Quote
            /\ undouble(inner) = s

\* quote_ident has returned for an identifier with two double quotes in a row
\* between two letters.
C29_Witness ==
    /\ quoted # << >>
    /\ identifier[1] = <<"a", Quote, Quote, "b">>
    /\ Len(quoted[1]) = 8

\* The decimal text of the positions a request can give to a dimension.
OrdinalText == <<"1", "2", "3", "4">>

\* C30: for a request that names at least one dimension and at least one
\* metric, the GROUP BY clause lists the ordinal positions 1..n of the n
\* requested dimensions, and each dimension's expression is in the SELECT
\* list, before the GROUP BY.
C30_GroupByOrdinals ==
    (/\ result # << >>
     /\ RequestValid
     /\ req[1].dimensions # << >>) =>
        /\ result[1].ok
        /\ has_piece(result[1].sql, "\nGROUP BY\n")
        /\ LET sql == result[1].sql
               listed == after(sql, "\nGROUP BY\n")
               selected == between(sql, "\nSELECT\n", "\nGROUP BY\n")
           IN  /\ \A i \in DOMAIN req[1].dimensions :
                      has_piece(listed, OrdinalText[i])
               /\ \A i \in DOMAIN RequestedDims :
                      \E k \in 1..(Len(selected) - Len(RequestedDims[i].expr) + 1) :
                          SubSeq(selected, k, k + Len(RequestedDims[i].expr) - 1)
                              = RequestedDims[i].expr

\* The store path has an extension: its file name has a Dot past its start.
HasExtension(path) == extension(path) # << >>

\* C31: the sidecar path is the store path with ".semantic_views" appended,
\* after the extension when it has one and after the bare name when it has
\* none, and neither the sidecar path nor the temporary path write_sidecar
\* writes to is the store path.
C31_SidecarPathAppends ==
    sidecar_file # << >> =>
        /\ sidecar_file[1] = store_path[1] \o <<Dot, "semantic_views">>
        /\ sidecar_file[1] # store_path[1]
        /\ tmp_file[1] # store_path[1]

C31_Witness ==
    /\ sidecar_file # << >>
    /\ HasExtension(store_path[1])
    /\ Len(store_path[1]) = 3
    /\ store_path[1][3] = "tmp"

\* C32 as stated: the existence check and the insertion of an insert call
\* are one atomic step: the step with which the call writes its entry finds
\* the name absent from the map, so of several concurrent inserts of one
\* absent name only one returns success.
C32_CheckAndInsertAtomic ==
    [][\A t \in Threads :
          (MutatesMap(t) /\ IsInsert(t)) => call[t].name \notin DOMAIN map]_vars

\* C33 as stated: on a store persisted by the background writer, once every
\* call has returned, with no crash and the worker alive, the map and the
\* table hold the same entries.
C33_MapEqualsStoreAtRest ==
    (/\ running
     /\ writerAlive
     /\ \A t \in Threads : Idle(t)) => map = table

\* The call of t is about to take the write guard of the map.
RequestsWrite(t) == pc[t] \in {"def_write", "drop_write", "ci_write", "cd_write"}

\* C34: no call requests the write guard of the map while it holds the read
\* guard, and every call that has begun returns.
C34_NoLockDeadlock ==
    /\ [](\A t \in Threads : RequestsWrite(t) => guard[t] # "read")
    /\ \A t \in Threads : (~Idle(t)) ~> Idle(t)

\* A call waits for the write guard while another call holds the read guard.
C34_Witness ==
    \E t, u \in Threads :
        /\ RequestsWrite(t)
        /\ guard[u] = "read"
        /\ ~CanWrite

\* C35 as stated: when an invoke of define_semantic_view or
\* drop_semantic_view on a chunk of rows has returned an error, the map and
\* the table are what they were when the invoke began.
C35_ChunkErrorNoEffect ==
    (input # << >> /\ outcome \notin {"none", "ok"}) =>
        (map = map_before /\ table = table_before)

\* The checks expand makes on the names of a request, in the order it makes
\* them: name i is a duplicate when an earlier name equals it but for case,
\* and unknown when no declared item has it.
NameChecks(declared, names, duplicate, unknown) ==
    [k \in 1..(2 * Len(names)) |->
        LET i == (k + 1) \div 2
        IN  IF k % 2 = 1
            THEN [kind |-> duplicate, name |-> names[i],
                  fails |-> \E j \in 1..(i - 1) :
                               eq_ignore_ascii_case(names[j], names[i])]
            ELSE [kind |-> unknown, name |-> names[i],
                  fails |-> Undeclared(declared, names[i])]]

\* Every check of expand, in the order the claim gives.
Checks(d, r) ==
    <<[kind |-> "EmptyMetrics", name |-> << >>, fails |-> r.metrics = << >>]>>
    \o NameChecks(d.dimensions, r.dimensions,
                  "DuplicateDimension", "UnknownDimension")
    \o NameChecks(d.metrics, r.metrics, "DuplicateMetric", "UnknownMetric")

FailingChecks(checks) == {k \in DOMAIN checks : checks[k].fails}

FirstFailing(checks) ==
    LET failing == FailingChecks(checks)
    IN  checks[CHOOSE k \in failing : \A l \in failing : k <= l]

DeclaredTables(js) == {to_ascii_lowercase(js[i].table) : i \in DOMAIN js}

\* The orders in which n joins can be scanned.
ScanOrders(n) ==
    {o \in [1..n -> 1..n] : \A a, b \in 1..n : a # b => o[a] # o[b]}

\* C37: the fixed-point loop of the join resolver is left after at most
\* (declared joins + 1) passes; the needed set never loses a table, gains one
\* on every pass but the last, stays within the directly required tables and
\* the declared join tables, and ends the same in whatever order the joins
\* are scanned.
C37_JoinLoopTerminates ==
    /\ [](declared_joins # << >> =>
            /\ needed_now \subseteq
                   needed_direct \cup DeclaredTables(declared_joins[1])
            /\ pass_count <= Len(declared_joins[1]) + 1
            /\ loop_done =>
                   \A o \in ScanOrders(Len(declared_joins[1])) :
                       join_closure([i \in DOMAIN declared_joins[1] |->
                                        declared_joins[1][o[i]]],
                                    needed_direct) = needed_now)
    /\ [][/\ needed_now \subseteq needed_now'
          /\ ~loop_done' => needed_now' # needed_now]_vars
    /\ <>loop_done

\* The loop was left after three passes over three joins, of which the
\* resolved items name one.
C37_Witness ==
    /\ loop_done
    /\ pass_count = 3
    /\ Len(declared_joins[1]) = 3
    /\ Cardinality(needed_direct) = 1
    /\ Cardinality(needed_now) = 3

\* The items of a reported field, read as from_json reads them.
ReportedItems(field) ==
    [i \in DOMAIN field.items |-> deserialize_item(field.items[i]).value]

ReportedJoins(field) ==
    [i \in DOMAIN field.items |-> deserialize_join(field.items[i]).value]

\* C38 as stated: for a stored definition describe reports the dimensions,
\* metrics, filters and joins that from_json yields for the stored text,
\* the empty list for filters and joins the text omits.
C38_DescribeReportsParsedFields ==
    described # << >> =>
        LET d == from_json(json_name[1], json_text[1]).value
            r == described[1]
        IN  /\ ~r.filters.null
            /\ r.filters.items = d.filters
            /\ ~r.joins.null
            /\ ReportedJoins(r.joins) = d.joins
            /\ ~r.dimensions.null
            /\ ReportedItems(r.dimensions) = d.dimensions
            /\ ~r.metrics.null
            /\ ReportedItems(r.metrics) = d.metrics

\* The chunks put out so far that hold lines.
LineChunks == SelectSeq(emitted, LAMBDA c : c.to > c.from)

\* C39 as stated: the chunks the func calls of one scan put out, whatever
\* the interleaving of the calls, hold each line once and in order, at most
\* 2048 lines each, and an empty chunk comes only after the last line and
\* is followed by empty chunks only.
C39_EachLineOnceInOrder ==
    /\ \A k \in DOMAIN LineChunks :
           /\ LineChunks[k].from = IF k = 1 THEN 0 ELSE LineChunks[k - 1].to
           /\ LineChunks[k].to - LineChunks[k].from <= chunk_size
    /\ \A k \in DOMAIN emitted :
           emitted[k].to = emitted[k].from =>
               /\ \A l \in DOMAIN emitted :
                      l > k => emitted[l].to = emitted[l].from
               /\ \/ total_lines = 0
                  \/ \E l \in 1..(k - 1) : emitted[l].to = total_lines

====
